---- MODULE Spec2Model ----
(***************************************************************************)
(* Faff-time analysis core of fafftime: slow-period detection, recording-  *)
(* gap detection, duration-bucket matching and the orchestrator that       *)
(* unifies both into one chronologically sorted list.                      *)
(*                                                                         *)
(* Conventions                                                             *)
(*   - an optional field (undefined / null in the source) is the empty     *)
(*     sequence <<>>, a present value v is <<v>>;                          *)
(*   - a Date is its getTime() value, an integer number of milliseconds;   *)
(*   - a non-integer number is the exact fraction [n |-> .., d |-> ..]     *)
(*     with d > 0 (minutes, hours);                                        *)
(*   - speeds are integers in units of 0.01 m/s;                           *)
(*   - arrays are 1-based sequences (index i here is index i-1 there).     *)
(***************************************************************************)
EXTENDS Integers, Sequences, FiniteSets, TLC

VARIABLES
    records,              \* FitRecord[] handed to the analysis
    selectedRanges,       \* TimeRange[] selected by the user
    gapThreshold,         \* gap threshold in ms
    pc,                   \* position inside findSlowPeriodsWithRanges
    i,                    \* loop index of the scan in progress
    currentSlowSequence,  \* run accumulated by findSpeedBasedSlowPeriods
    slowPeriods,          \* periods emitted by findSpeedBasedSlowPeriods
    gaps,                 \* gaps emitted by findTimestampGaps
    gapPeriods,           \* result of findMatchingRecordingGaps
    result,               \* value returned by findSlowPeriodsWithRanges
    mRange,               \* matchesTimeRange: range argument
    mMinutes,             \* matchesTimeRange: durationMinutes argument
    mHours,               \* matchesTimeRange: durationHours argument
    mResult,              \* matchesTimeRange: returned value, <<>> before a call
    stats,                \* calculateSlowPeriodStatistics: returned value, <<>> before a call
    mergeFn,              \* the merger called: its name, "" before a call
    mergeArg,             \* the merger called: its argument
    mergeResult,          \* the merger called: returned value, <<>> before a call
    uiGapThreshold,       \* App: the gapThreshold state behind the threshold select
    thresholdArg,         \* the gapThreshold argument of a call, <<>> when omitted
    firstResult,          \* the value an earlier call with these arguments returned
    sessions,             \* fitData.sessionMesgs
    activityTimes,        \* extractActivityTimes called: returned value, <<>> before
    analysisResult,       \* buildAnalysisResult called: returned value, <<>> before
    toggled,              \* App: the last two calls of toggleRangeSelection
    parsedFile,           \* App: the parsedFile state, <<>> for null
    status,               \* App: 'idle' or 'loading'
    fileError,            \* App: the fileError state, <<>> for null
    loads                 \* App: the calls of the two load handlers, in start order

vars == <<records, selectedRanges, gapThreshold, pc, i, currentSlowSequence,
          slowPeriods, gaps, gapPeriods, result, mRange, mMinutes, mHours, mResult,
          stats, mergeFn, mergeArg, mergeResult,
          uiGapThreshold, thresholdArg, firstResult,
          sessions, activityTimes, analysisResult,
          toggled, parsedFile, status, fileError, loads>>

analysisVars == <<records, selectedRanges, gapThreshold, pc, i, currentSlowSequence,
                  slowPeriods, gaps, gapPeriods, result>>

matchVars == <<mRange, mMinutes, mHours, mResult>>

statsVars == <<stats>>

mergeVars == <<mergeFn, mergeArg, mergeResult>>

repeatVars == <<uiGapThreshold, thresholdArg, firstResult>>

buildVars == <<sessions, activityTimes, analysisResult>>

loadVars == <<parsedFile, status, fileError, loads>>

appVars == <<toggled, loadVars>>

\* the variables of the functions called on their own
unitVars == <<matchVars, statsVars, mergeVars, repeatVars, buildVars, appVars>>

(***************************************************************************)
(* Numbers                                                                 *)
(***************************************************************************)
Present(x) == x # <<>>

Frac(n, d) == [n |-> n, d |-> d]

\* x / k for a fraction x and a positive integer k
FracDiv(x, k) == [n |-> x.n, d |-> x.d * k]

\* x >= k and x < k for a fraction x and an integer k
FracGE(x, k) == x.n >= k * x.d

FracLT(x, k) == x.n < k * x.d

\* Math.round: nearest integer, halves towards +infinity
MathRound(x) == (2 * x.n + x.d) \div (2 * x.d)

(***************************************************************************)
(* Program constants                                                       *)
(***************************************************************************)
SPEED_THRESHOLD == 75

DEFAULT_GAP_THRESHOLD_MS == 120000

DEFAULT_SELECTED_RANGES == <<"2to5", "5to10", "10to30", "30to60", "1to2hours", "over2hours">>

\* RANGE_LABELS[range]; undefined (<<>>) for an identifier that is no key
RANGE_LABELS(range) ==
    CASE range = "2to5"       -> <<"2-5 minutes">>
      [] range = "5to10"      -> <<"5-10 minutes">>
      [] range = "10to30"     -> <<"10-30 minutes">>
      [] range = "30to60"     -> <<"30-60 minutes">>
      [] range = "1to2hours"  -> <<"1-2 hours">>
      [] range = "over2hours" -> <<"Over 2 hours">>
      [] OTHER                -> <<>>

(***************************************************************************)
(* time-utils: matchesTimeRange                                            *)
(***************************************************************************)
\* matchesTimeRange with the upper bounds written <= instead of <
matchesTimeRangeClosed(range, durationMinutes, durationHours) ==
    CASE range = "2to5"       -> /\ FracGE(durationMinutes, 2)
                                 /\ durationMinutes.n <= 5 * durationMinutes.d
      [] range = "5to10"      -> /\ FracGE(durationMinutes, 5)
                                 /\ durationMinutes.n <= 10 * durationMinutes.d
      [] range = "10to30"     -> /\ FracGE(durationMinutes, 10)
                                 /\ durationMinutes.n <= 30 * durationMinutes.d
      [] range = "30to60"     -> /\ FracGE(durationMinutes, 30)
                                 /\ durationMinutes.n <= 60 * durationMinutes.d
      [] range = "1to2hours"  -> /\ FracGE(durationHours, 1)
                                 /\ durationHours.n <= 2 * durationHours.d
      [] range = "over2hours" -> FracGE(durationHours, 2)
      [] OTHER                -> FALSE

matchesTimeRange(range, durationMinutes, durationHours) ==
    CASE range = "2to5"       -> FracGE(durationMinutes, 2) /\ FracLT(durationMinutes, 5)
      [] range = "5to10"      -> FracGE(durationMinutes, 5) /\ FracLT(durationMinutes, 10)
      [] range = "10to30"     -> FracGE(durationMinutes, 10) /\ FracLT(durationMinutes, 30)
      [] range = "30to60"     -> FracGE(durationMinutes, 30) /\ FracLT(durationMinutes, 60)
      [] range = "1to2hours"  -> FracGE(durationHours, 1) /\ FracLT(durationHours, 2)
      [] range = "over2hours" -> FracGE(durationHours, 2)
      [] OTHER                -> FALSE

\* selectedRanges.some(range => matchesTimeRange(range, minutes, hours))
SomeRangeMatches(ranges, durationMinutes, durationHours) ==
    \E k \in 1..Len(ranges) : matchesTimeRange(ranges[k], durationMinutes, durationHours)

(***************************************************************************)
(* gps-utils                                                               *)
(***************************************************************************)
\* raw * SEMICIRCLE_TO_DEGREES, with 180 / 2^31 = 45 / 2^29
SemicircleToDegrees(raw) == Frac(raw * 45, 2^29)

toGpsPoint(record) ==
    IF ~Present(record.positionLat) \/ ~Present(record.positionLong)
    THEN <<>>
    ELSE << <<SemicircleToDegrees(record.positionLat[1]),
              SemicircleToDegrees(record.positionLong[1])>> >>

RECURSIVE convertGpsCoordinates(_)
convertGpsCoordinates(recs) ==
    IF recs = <<>> THEN <<>>
    ELSE toGpsPoint(Head(recs)) \o convertGpsCoordinates(Tail(recs))

(***************************************************************************)
(* data-analyzer: slow periods                                             *)
(***************************************************************************)
\* record.enhancedSpeed || record.speed || 0 : a zero operand is falsy
EffectiveSpeed(record) ==
    IF Present(record.enhancedSpeed) /\ record.enhancedSpeed[1] # 0
    THEN record.enhancedSpeed[1]
    ELSE IF Present(record.speed) /\ record.speed[1] # 0
         THEN record.speed[1]
         ELSE 0

IsSlow(record) == EffectiveSpeed(record) < SPEED_THRESHOLD

\* shouldBreakSequenceForTimestampGap with the test written >= instead of >
shouldBreakInclusive(seq, record, threshold) ==
    IF Len(seq) = 0 THEN FALSE
    ELSE LET previousRecord == seq[Len(seq)]
         IN  IF ~Present(record.timestamp) \/ ~Present(previousRecord.timestamp)
             THEN FALSE
             ELSE record.timestamp[1] - previousRecord.timestamp[1] >= threshold

shouldBreakSequenceForTimestampGap(seq, record, threshold) ==
    IF Len(seq) = 0 THEN FALSE
    ELSE LET previousRecord == seq[Len(seq)]
         IN  IF ~Present(record.timestamp) \/ ~Present(previousRecord.timestamp)
             THEN FALSE
             ELSE record.timestamp[1] - previousRecord.timestamp[1] > threshold

\* processSlowSequence matching on minutes rounded as for recording gaps
processSlowSequenceRounded(seq, ranges) ==
    IF Len(seq) = 0 THEN <<>>
    ELSE LET startRecord == seq[1]
             endRecord   == seq[Len(seq)]
         IN  IF ~Present(startRecord.timestamp) \/ ~Present(endRecord.timestamp)
             THEN <<>>
             ELSE LET durationMs      == endRecord.timestamp[1] - startRecord.timestamp[1]
                      durationMinutes == Frac(MathRound(Frac(durationMs, 1000 * 60)), 1)
                      durationHours   == FracDiv(durationMinutes, 60)
                      startDistance   == IF Present(startRecord.distance)
                                         THEN startRecord.distance[1] ELSE 0
                      endDistance     == IF Present(endRecord.distance)
                                         THEN endRecord.distance[1] ELSE startDistance
                  IN  IF SomeRangeMatches(ranges, durationMinutes, durationHours)
                      THEN << [startTime     |-> startRecord.timestamp[1],
                               endTime       |-> endRecord.timestamp[1],
                               recordCount   |-> Len(seq),
                               startDistance |-> startDistance,
                               endDistance   |-> endDistance,
                               gpsPoints     |-> convertGpsCoordinates(seq)] >>
                      ELSE <<>>

\* processSlowSequence taking the first and the last timestamped record of the
\* run as its boundaries
processSlowSequenceTimestamped(seq, ranges) ==
    LET HasTimestamp(record) == Present(record.timestamp)
        stamped == SelectSeq(seq, HasTimestamp)
    IN  IF Len(stamped) = 0 THEN <<>>
        ELSE LET startRecord     == stamped[1]
                 endRecord       == stamped[Len(stamped)]
                 durationMs      == endRecord.timestamp[1] - startRecord.timestamp[1]
                 durationMinutes == Frac(durationMs, 1000 * 60)
                 durationHours   == FracDiv(durationMinutes, 60)
                 startDistance   == IF Present(startRecord.distance)
                                    THEN startRecord.distance[1] ELSE 0
                 endDistance     == IF Present(endRecord.distance)
                                    THEN endRecord.distance[1] ELSE startDistance
             IN  IF SomeRangeMatches(ranges, durationMinutes, durationHours)
                 THEN << [startTime     |-> startRecord.timestamp[1],
                          endTime       |-> endRecord.timestamp[1],
                          recordCount   |-> Len(seq),
                          startDistance |-> startDistance,
                          endDistance   |-> endDistance,
                          gpsPoints     |-> convertGpsCoordinates(seq)] >>
                 ELSE <<>>

\* processSlowSequence without the test against the selected ranges
processSlowSequenceUnfiltered(seq, ranges) ==
    IF Len(seq) = 0 THEN <<>>
    ELSE LET startRecord == seq[1]
             endRecord   == seq[Len(seq)]
         IN  IF ~Present(startRecord.timestamp) \/ ~Present(endRecord.timestamp)
             THEN <<>>
             ELSE LET startDistance == IF Present(startRecord.distance)
                                       THEN startRecord.distance[1] ELSE 0
                      endDistance   == IF Present(endRecord.distance)
                                       THEN endRecord.distance[1] ELSE startDistance
                  IN  << [startTime     |-> startRecord.timestamp[1],
                          endTime       |-> endRecord.timestamp[1],
                          recordCount   |-> Len(seq),
                          startDistance |-> startDistance,
                          endDistance   |-> endDistance,
                          gpsPoints     |-> convertGpsCoordinates(seq)] >>

\* processSlowSequence with the distance fallbacks written with || instead
\* of ??, so that a distance of 0 counts as absent
processSlowSequenceFalsyDistance(seq, ranges) ==
    IF Len(seq) = 0 THEN <<>>
    ELSE LET startRecord == seq[1]
             endRecord   == seq[Len(seq)]
         IN  IF ~Present(startRecord.timestamp) \/ ~Present(endRecord.timestamp)
             THEN <<>>
             ELSE LET durationMs      == endRecord.timestamp[1] - startRecord.timestamp[1]
                      durationMinutes == Frac(durationMs, 1000 * 60)
                      durationHours   == FracDiv(durationMinutes, 60)
                      startDistance   == IF Present(startRecord.distance)
                                         THEN startRecord.distance[1] ELSE 0
                      endDistance     == IF /\ Present(endRecord.distance)
                                            /\ endRecord.distance[1] # 0
                                         THEN endRecord.distance[1] ELSE startDistance
                  IN  IF SomeRangeMatches(ranges, durationMinutes, durationHours)
                      THEN << [startTime     |-> startRecord.timestamp[1],
                               endTime       |-> endRecord.timestamp[1],
                               recordCount   |-> Len(seq),
                               startDistance |-> startDistance,
                               endDistance   |-> endDistance,
                               gpsPoints     |-> convertGpsCoordinates(seq)] >>
                      ELSE <<>>

\* null is <<>>, a period p is <<p>>
processSlowSequence(seq, ranges) ==
    IF Len(seq) = 0 THEN <<>>
    ELSE LET startRecord == seq[1]
             endRecord   == seq[Len(seq)]
         IN  IF ~Present(startRecord.timestamp) \/ ~Present(endRecord.timestamp)
             THEN <<>>
             ELSE LET durationMs      == endRecord.timestamp[1] - startRecord.timestamp[1]
                      durationMinutes == Frac(durationMs, 1000 * 60)
                      durationHours   == FracDiv(durationMinutes, 60)
                      startDistance   == IF Present(startRecord.distance)
                                         THEN startRecord.distance[1] ELSE 0
                      endDistance     == IF Present(endRecord.distance)
                                         THEN endRecord.distance[1] ELSE startDistance
                  IN  IF SomeRangeMatches(ranges, durationMinutes, durationHours)
                      THEN << [startTime     |-> startRecord.timestamp[1],
                               endTime       |-> endRecord.timestamp[1],
                               recordCount   |-> Len(seq),
                               startDistance |-> startDistance,
                               endDistance   |-> endDistance,
                               gpsPoints     |-> convertGpsCoordinates(seq)] >>
                      ELSE <<>>

\* ScanStep without the reset of the run after a fast record
ScanStepNoReset(st, record, ranges, threshold) ==
    IF IsSlow(record)
    THEN IF shouldBreakSequenceForTimestampGap(st.seq, record, threshold)
         THEN [periods |-> st.periods \o processSlowSequence(st.seq, ranges),
               seq     |-> <<record>>]
         ELSE [periods |-> st.periods,
               seq     |-> Append(st.seq, record)]
    ELSE [periods |-> st.periods \o processSlowSequence(st.seq, ranges),
          seq     |-> st.seq]

\* the body of the for loop of findSpeedBasedSlowPeriods, on the loop state
\* st = [periods |-> slowPeriods, seq |-> currentSlowSequence]
ScanStep(st, record, ranges, threshold) ==
    IF IsSlow(record)
    THEN IF shouldBreakSequenceForTimestampGap(st.seq, record, threshold)
         THEN [periods |-> st.periods \o processSlowSequence(st.seq, ranges),
               seq     |-> <<record>>]
         ELSE [periods |-> st.periods,
               seq     |-> Append(st.seq, record)]
    ELSE [periods |-> st.periods \o processSlowSequence(st.seq, ranges),
          seq     |-> <<>>]

\* the loop state after the for loop has run over recs
RECURSIVE ScanAll(_, _, _)
ScanAll(recs, ranges, threshold) ==
    IF recs = <<>>
    THEN [periods |-> <<>>, seq |-> <<>>]
    ELSE ScanStep(ScanAll(SubSeq(recs, 1, Len(recs) - 1), ranges, threshold),
                  recs[Len(recs)], ranges, threshold)

findSpeedBasedSlowPeriods(recs, ranges, threshold) ==
    LET st == ScanAll(recs, ranges, threshold)
    IN  st.periods \o processSlowSequence(st.seq, ranges)

(***************************************************************************)
(* data-analyzer: recording gaps                                           *)
(***************************************************************************)
\* GapBetween with the threshold test written >= instead of >
GapBetweenInclusive(previousRecord, currentRecord, threshold) ==
    IF ~Present(previousRecord.timestamp) \/ ~Present(currentRecord.timestamp)
    THEN <<>>
    ELSE LET timeDifference == currentRecord.timestamp[1] - previousRecord.timestamp[1]
             gapDurationMinutes == MathRound(Frac(timeDifference, 1000 * 60))
         IN  IF timeDifference >= threshold
             THEN << [startTime          |-> previousRecord.timestamp[1],
                      endTime            |-> currentRecord.timestamp[1],
                      gapDuration        |-> timeDifference,
                      gapDurationMinutes |-> gapDurationMinutes,
                      gapDurationHours   |-> Frac(gapDurationMinutes, 60),
                      startDistance      |-> IF Present(previousRecord.distance)
                                             THEN previousRecord.distance[1] ELSE 0,
                      endDistance        |-> IF Present(currentRecord.distance)
                                             THEN currentRecord.distance[1] ELSE 0,
                      startGpsPoint      |-> toGpsPoint(previousRecord),
                      endGpsPoint        |-> toGpsPoint(currentRecord)] >>
             ELSE <<>>

\* GapBetween with gapDurationHours taken from the raw milliseconds
GapBetweenRawHours(previousRecord, currentRecord, threshold) ==
    IF ~Present(previousRecord.timestamp) \/ ~Present(currentRecord.timestamp)
    THEN <<>>
    ELSE LET timeDifference == currentRecord.timestamp[1] - previousRecord.timestamp[1]
             gapDurationMinutes == MathRound(Frac(timeDifference, 1000 * 60))
         IN  IF timeDifference > threshold
             THEN << [startTime          |-> previousRecord.timestamp[1],
                      endTime            |-> currentRecord.timestamp[1],
                      gapDuration        |-> timeDifference,
                      gapDurationMinutes |-> gapDurationMinutes,
                      gapDurationHours   |-> Frac(timeDifference, 1000 * 60 * 60),
                      startDistance      |-> IF Present(previousRecord.distance)
                                             THEN previousRecord.distance[1] ELSE 0,
                      endDistance        |-> IF Present(currentRecord.distance)
                                             THEN currentRecord.distance[1] ELSE 0,
                      startGpsPoint      |-> toGpsPoint(previousRecord),
                      endGpsPoint        |-> toGpsPoint(currentRecord)] >>
             ELSE <<>>

\* the gap pushed for the pair (previousRecord, currentRecord), <<>> if none
GapBetween(previousRecord, currentRecord, threshold) ==
    IF ~Present(previousRecord.timestamp) \/ ~Present(currentRecord.timestamp)
    THEN <<>>
    ELSE LET timeDifference == currentRecord.timestamp[1] - previousRecord.timestamp[1]
             gapDurationMinutes == MathRound(Frac(timeDifference, 1000 * 60))
         IN  IF timeDifference > threshold
             THEN << [startTime          |-> previousRecord.timestamp[1],
                      endTime            |-> currentRecord.timestamp[1],
                      gapDuration        |-> timeDifference,
                      gapDurationMinutes |-> gapDurationMinutes,
                      gapDurationHours   |-> Frac(gapDurationMinutes, 60),
                      startDistance      |-> IF Present(previousRecord.distance)
                                             THEN previousRecord.distance[1] ELSE 0,
                      endDistance        |-> IF Present(currentRecord.distance)
                                             THEN currentRecord.distance[1] ELSE 0,
                      startGpsPoint      |-> toGpsPoint(previousRecord),
                      endGpsPoint        |-> toGpsPoint(currentRecord)] >>
             ELSE <<>>

buildGpsPointsFromGap(gap) ==
    IF Present(gap.startGpsPoint) /\ Present(gap.endGpsPoint)
    THEN gap.startGpsPoint \o gap.endGpsPoint
    ELSE IF Present(gap.startGpsPoint) THEN gap.startGpsPoint
    ELSE IF Present(gap.endGpsPoint) THEN gap.endGpsPoint
    ELSE <<>>

\* convertGapToPeriod counting the two records that bound the gap
convertGapToPeriodCounted(gap) ==
    [startTime     |-> gap.startTime,
     endTime       |-> gap.endTime,
     recordCount   |-> 2,
     startDistance |-> gap.startDistance,
     endDistance   |-> gap.endDistance,
     gpsPoints     |-> buildGpsPointsFromGap(gap),
     isGap         |-> TRUE,
     gapData       |-> gap]

convertGapToPeriod(gap) ==
    [startTime     |-> gap.startTime,
     endTime       |-> gap.endTime,
     recordCount   |-> 0,
     startDistance |-> gap.startDistance,
     endDistance   |-> gap.endDistance,
     gpsPoints     |-> buildGpsPointsFromGap(gap),
     isGap         |-> TRUE,
     gapData       |-> gap]

\* period.isGap is undefined on a speed-based slow period
IsGap(period) == "isGap" \in DOMAIN period /\ period.isGap

\* MatchingGaps without the test against the selected ranges
RECURSIVE MatchingGapsUnfiltered(_, _)
MatchingGapsUnfiltered(timestampGaps, ranges) ==
    IF timestampGaps = <<>> THEN <<>>
    ELSE <<convertGapToPeriod(Head(timestampGaps))>>
         \o MatchingGapsUnfiltered(Tail(timestampGaps), ranges)

\* MatchingGaps testing the unrounded duration, as processSlowSequence does
RECURSIVE MatchingGapsUnrounded(_, _)
MatchingGapsUnrounded(timestampGaps, ranges) ==
    IF timestampGaps = <<>> THEN <<>>
    ELSE LET gap == Head(timestampGaps)
             durationMinutes == Frac(gap.gapDuration, 1000 * 60)
         IN  (IF SomeRangeMatches(ranges, durationMinutes, FracDiv(durationMinutes, 60))
              THEN <<convertGapToPeriod(gap)>> ELSE <<>>)
             \o MatchingGapsUnrounded(Tail(timestampGaps), ranges)

\* the forEach of findMatchingRecordingGaps over the detected gaps
RECURSIVE MatchingGaps(_, _)
MatchingGaps(timestampGaps, ranges) ==
    IF timestampGaps = <<>> THEN <<>>
    ELSE LET gap == Head(timestampGaps)
         IN  (IF SomeRangeMatches(ranges, Frac(gap.gapDurationMinutes, 1), gap.gapDurationHours)
              THEN <<convertGapToPeriod(gap)>> ELSE <<>>)
             \o MatchingGaps(Tail(timestampGaps), ranges)

(***************************************************************************)
(* data-analyzer, variant with the interval merger                         *)
(***************************************************************************)
\* const twoMinutesMs = 1 * 60 * 1000 (mergeNearbySlowPeriods)
twoMinutesMs == 1 * 60 * 1000

\* const oneMinuteMs = 1 * 60 * 1000 (mergeNearbyRecordingGaps)
oneMinuteMs == 1 * 60 * 1000

\* MergeSlowFrom with the tolerance test written <= instead of <
RECURSIVE MergeSlowFromInclusive(_, _, _, _)
MergeSlowFromInclusive(periods, k, currentPeriod, mergedPeriods) ==
    IF k > Len(periods) THEN Append(mergedPeriods, currentPeriod)
    ELSE LET nextPeriod  == periods[k]
             timeBetween == nextPeriod.startTime - currentPeriod.endTime
         IN  IF timeBetween <= twoMinutesMs
             THEN MergeSlowFromInclusive(periods, k + 1,
                      [startTime     |-> currentPeriod.startTime,
                       endTime       |-> nextPeriod.endTime,
                       recordCount   |-> currentPeriod.recordCount + nextPeriod.recordCount,
                       startDistance |-> currentPeriod.startDistance,
                       endDistance   |-> nextPeriod.endDistance,
                       gpsPoints     |-> currentPeriod.gpsPoints \o nextPeriod.gpsPoints],
                      mergedPeriods)
             ELSE MergeSlowFromInclusive(periods, k + 1, nextPeriod,
                                         Append(mergedPeriods, currentPeriod))

\* MergeSlowFrom merging pairs only: a merged period is emitted at once and the
\* period after it starts afresh
RECURSIVE MergeSlowFromPairwise(_, _, _, _)
MergeSlowFromPairwise(periods, k, currentPeriod, mergedPeriods) ==
    IF k > Len(periods) THEN Append(mergedPeriods, currentPeriod)
    ELSE LET nextPeriod  == periods[k]
             timeBetween == nextPeriod.startTime - currentPeriod.endTime
             combined    == [startTime     |-> currentPeriod.startTime,
                             endTime       |-> nextPeriod.endTime,
                             recordCount   |-> currentPeriod.recordCount + nextPeriod.recordCount,
                             startDistance |-> currentPeriod.startDistance,
                             endDistance   |-> nextPeriod.endDistance,
                             gpsPoints     |-> currentPeriod.gpsPoints \o nextPeriod.gpsPoints]
         IN  IF timeBetween < twoMinutesMs
             THEN IF k + 1 > Len(periods) THEN Append(mergedPeriods, combined)
                  ELSE MergeSlowFromPairwise(periods, k + 2, periods[k + 1],
                                             Append(mergedPeriods, combined))
             ELSE MergeSlowFromPairwise(periods, k + 1, nextPeriod,
                                        Append(mergedPeriods, currentPeriod))

\* the for loop of mergeNearbySlowPeriods from index k on
RECURSIVE MergeSlowFrom(_, _, _, _)
MergeSlowFrom(periods, k, currentPeriod, mergedPeriods) ==
    IF k > Len(periods) THEN Append(mergedPeriods, currentPeriod)
    ELSE LET nextPeriod  == periods[k]
             timeBetween == nextPeriod.startTime - currentPeriod.endTime
         IN  IF timeBetween < twoMinutesMs
             THEN MergeSlowFrom(periods, k + 1,
                      [startTime     |-> currentPeriod.startTime,
                       endTime       |-> nextPeriod.endTime,
                       recordCount   |-> currentPeriod.recordCount + nextPeriod.recordCount,
                       startDistance |-> currentPeriod.startDistance,
                       endDistance   |-> nextPeriod.endDistance,
                       gpsPoints     |-> currentPeriod.gpsPoints \o nextPeriod.gpsPoints],
                      mergedPeriods)
             ELSE MergeSlowFrom(periods, k + 1, nextPeriod,
                                Append(mergedPeriods, currentPeriod))

mergeNearbySlowPeriods(periods) ==
    IF Len(periods) <= 1 THEN periods
    ELSE MergeSlowFrom(periods, 2, periods[1], <<>>)

\* period.gapData is undefined unless the field is there
HasGapData(period) == "gapData" \in DOMAIN period

\* the merged period of two gap periods
MergedGapPeriod(currentPeriod, nextPeriod) ==
    LET base == [startTime     |-> currentPeriod.startTime,
                 endTime       |-> nextPeriod.endTime,
                 recordCount   |-> 0,
                 startDistance |-> currentPeriod.startDistance,
                 endDistance   |-> nextPeriod.endDistance,
                 gpsPoints     |-> currentPeriod.gpsPoints \o nextPeriod.gpsPoints,
                 isGap         |-> TRUE]
    IN  IF HasGapData(currentPeriod) /\ HasGapData(nextPeriod)
        THEN LET span    == nextPeriod.gapData.endTime - currentPeriod.gapData.startTime
                 minutes == MathRound(Frac(span, 1000 * 60))
             IN  base @@ [gapData |->
                     [startTime          |-> currentPeriod.gapData.startTime,
                      endTime            |-> nextPeriod.gapData.endTime,
                      gapDuration        |-> span,
                      gapDurationMinutes |-> minutes,
                      gapDurationHours   |-> Frac(minutes, 60),
                      startDistance      |-> currentPeriod.gapData.startDistance,
                      endDistance        |-> nextPeriod.gapData.endDistance,
                      startGpsPoint      |-> currentPeriod.gapData.startGpsPoint,
                      endGpsPoint        |-> nextPeriod.gapData.endGpsPoint]]
        ELSE base

\* the for loop of mergeNearbyRecordingGaps from index k on
RECURSIVE MergeGapsFrom(_, _, _, _)
MergeGapsFrom(periods, k, currentPeriod, mergedPeriods) ==
    IF k > Len(periods) THEN Append(mergedPeriods, currentPeriod)
    ELSE LET nextPeriod  == periods[k]
             timeBetween == nextPeriod.startTime - currentPeriod.endTime
         IN  IF timeBetween < oneMinuteMs
             THEN MergeGapsFrom(periods, k + 1,
                                MergedGapPeriod(currentPeriod, nextPeriod), mergedPeriods)
             ELSE MergeGapsFrom(periods, k + 1, nextPeriod,
                                Append(mergedPeriods, currentPeriod))

mergeNearbyRecordingGaps(periods) ==
    IF Len(periods) <= 1 THEN periods
    ELSE MergeGapsFrom(periods, 2, periods[1], <<>>)

(***************************************************************************)
(* data-analyzer: orchestrator                                             *)
(***************************************************************************)
\* insert p behind every element q with q.startTime <= p.startTime
RECURSIVE InsertByStartTime(_, _)
InsertByStartTime(sorted, p) ==
    IF sorted = <<>> THEN <<p>>
    ELSE LET last == sorted[Len(sorted)]
         IN  IF last.startTime - p.startTime <= 0
             THEN Append(sorted, p)
             ELSE Append(InsertByStartTime(SubSeq(sorted, 1, Len(sorted) - 1), p), last)

\* periods.sort((a, b) => a.startTime.getTime() - b.startTime.getTime()), a stable sort
RECURSIVE SortByStartTime(_)
SortByStartTime(periods) ==
    IF periods = <<>> THEN <<>>
    ELSE InsertByStartTime(SortByStartTime(SubSeq(periods, 1, Len(periods) - 1)),
                           periods[Len(periods)])

\* CombinePeriods over the merged lists, the return statement left commented
\* out in the variant with the interval merger
CombinePeriodsMerged(slow, gapList) ==
    SortByStartTime(mergeNearbySlowPeriods(slow) \o mergeNearbyRecordingGaps(gapList))

\* CombinePeriods with the two lists concatenated the other way round
CombinePeriodsGapsFirst(slow, gapList) == SortByStartTime(gapList \o slow)

\* the return statement of findSlowPeriodsWithRanges
CombinePeriods(slow, gapList) == SortByStartTime(slow \o gapList)

\* the for loop of findTimestampGaps over the pairs (k - 1, k) up to the last
RECURSIVE findTimestampGaps(_, _)
findTimestampGaps(recs, threshold) ==
    IF Len(recs) <= 1 THEN <<>>
    ELSE findTimestampGaps(SubSeq(recs, 1, Len(recs) - 1), threshold)
         \o GapBetween(recs[Len(recs) - 1], recs[Len(recs)], threshold)

findMatchingRecordingGaps(recs, ranges, threshold) ==
    MatchingGaps(findTimestampGaps(recs, threshold), ranges)

findSlowPeriodsWithRanges(recs, ranges, threshold) ==
    IF Len(ranges) = 0 THEN <<>>
    ELSE CombinePeriods(findSpeedBasedSlowPeriods(recs, ranges, threshold),
                        findMatchingRecordingGaps(recs, ranges, threshold))

(***************************************************************************)
(* analysis: calculateSlowPeriodStatistics                                 *)
(***************************************************************************)
\* DurationSeconds without the clamp at zero
DurationSecondsUnclamped(period) ==
    MathRound(Frac(period.endTime - period.startTime, 1000))

\* Math.max(0, Math.round((endTime - startTime) / 1000))
DurationSeconds(period) ==
    LET rounded == MathRound(Frac(period.endTime - period.startTime, 1000))
    IN  IF rounded > 0 THEN rounded ELSE 0

\* periods.reduce((total, period) => total + durationSeconds, 0); with gapsOnly
\* the reducer returns total unchanged for a period that is no gap
RECURSIVE ReduceDurationSeconds(_, _)
ReduceDurationSeconds(periods, gapsOnly) ==
    IF periods = <<>> THEN 0
    ELSE LET period == periods[Len(periods)]
             total  == ReduceDurationSeconds(SubSeq(periods, 1, Len(periods) - 1), gapsOnly)
         IN  IF gapsOnly /\ ~IsGap(period) THEN total
             ELSE total + DurationSeconds(period)

\* MatchingPeriods without the exclusion of gap intervals
MatchingPeriodsWithGaps(periods, range) ==
    LET Matches(period) ==
            LET durationMs      == period.endTime - period.startTime
                durationMinutes == Frac(durationMs, 1000 * 60)
                durationHours   == FracDiv(durationMinutes, 60)
            IN  matchesTimeRange(range, durationMinutes, durationHours)
    IN  SelectSeq(periods, Matches)

\* the filter that gives matchingPeriods for one selected range
MatchingPeriods(periods, range) ==
    LET Matches(period) ==
            IF IsGap(period) THEN FALSE
            ELSE LET durationMs      == period.endTime - period.startTime
                     durationMinutes == Frac(durationMs, 1000 * 60)
                     durationHours   == FracDiv(durationMinutes, 60)
                 IN  matchesTimeRange(range, durationMinutes, durationHours)
    IN  SelectSeq(periods, Matches)

calculateSlowPeriodStatistics(periods, ranges) ==
    LET NotGap(period) == ~IsGap(period)
    IN  [slowCount            |-> Len(SelectSeq(periods, NotGap)),
         gapCount             |-> Len(SelectSeq(periods, IsGap)),
         totalDurationSeconds |-> ReduceDurationSeconds(periods, FALSE),
         gapDurationSeconds   |-> ReduceDurationSeconds(periods, TRUE),
         rangeBreakdown       |->
             [k \in 1..Len(ranges) |->
                 LET matchingPeriods == MatchingPeriods(periods, ranges[k])
                 IN  [range                |-> ranges[k],
                      label                |-> RANGE_LABELS(ranges[k]),
                      count                |-> Len(matchingPeriods),
                      totalDurationSeconds |-> ReduceDurationSeconds(matchingPeriods, FALSE)]]]

(***************************************************************************)
(* Inputs                                                                  *)
(***************************************************************************)
\* longest record list analysed
MaxRecords == 4

\* longest record list analysed when the speed fields vary
MaxSpeedRecords == 2

Sample(ts, speed, enhancedSpeed) ==
    [timestamp     |-> ts,
     speed         |-> speed,
     enhancedSpeed |-> enhancedSpeed,
     distance      |-> IF Present(ts) THEN <<ts[1] \div 1000>> ELSE <<>>,
     positionLat   |-> <<>>,
     positionLong  |-> <<>>]

\* 0 min, 2 min, 4 min 30 s and 7 min after the start, or no timestamp
Timestamps == {<<>>, <<0>>, <<120000>>, <<270000>>, <<420000>>}

\* 0.50 m/s (slow) and 2.00 m/s (fast)
Speeds == {<<50>>, <<200>>}

Samples == {Sample(ts, sp, <<>>) : ts \in Timestamps, sp \in Speeds}

\* every combination of an absent, zero, slow or fast speed / enhancedSpeed
SpeedFields == {<<>>, <<0>>, <<50>>, <<200>>}

SpeedSamples == {Sample(ts, sp, esp) : ts \in {<<0>>, <<270000>>},
                                       sp \in SpeedFields, esp \in SpeedFields}

Selections == {<<>>, <<"2to5">>, <<"2to5", "5to10">>}

GapThresholds == {DEFAULT_GAP_THRESHOLD_MS}

SeqsUpTo(S, n) == UNION {[1..k -> S] : k \in 0..n}

(***************************************************************************)
(* findSlowPeriodsWithRanges, one action per step                          *)
(***************************************************************************)
MatchIdle ==
    /\ mRange = ""
    /\ mMinutes = Frac(0, 1)
    /\ mHours = Frac(0, 1)
    /\ mResult = <<>>

StatsIdle == stats = <<>>

RepeatIdle ==
    /\ uiGapThreshold = DEFAULT_GAP_THRESHOLD_MS
    /\ thresholdArg = <<>>
    /\ firstResult = <<>>

BuildIdle ==
    /\ sessions = <<>>
    /\ activityTimes = <<>>
    /\ analysisResult = <<>>

AppIdle ==
    /\ toggled = <<>>
    /\ parsedFile = <<>>
    /\ status = "idle"
    /\ fileError = <<>>
    /\ loads = <<>>

MergeIdle ==
    /\ mergeFn = ""
    /\ mergeArg = <<>>
    /\ mergeResult = <<>>

AnalysisStart ==
    /\ pc = "start"
    /\ i = 1
    /\ currentSlowSequence = <<>>
    /\ slowPeriods = <<>>
    /\ gaps = <<>>
    /\ gapPeriods = <<>>
    /\ result = <<>>

Init ==
    /\ records \in SeqsUpTo(Samples, MaxRecords)
    /\ selectedRanges \in Selections
    /\ gapThreshold \in GapThresholds
    /\ AnalysisStart
    /\ MatchIdle
    /\ StatsIdle
    /\ BuildIdle
    /\ RepeatIdle
    /\ MergeIdle
    /\ AppIdle

\* ReturnEmpty falling back to the default selection when none is selected
ReturnEmptyAsDefault ==
    /\ pc = "start"
    /\ Len(selectedRanges) = 0
    /\ result' = findSlowPeriodsWithRanges(records, DEFAULT_SELECTED_RANGES, gapThreshold)
    /\ pc' = "done"
    /\ UNCHANGED <<records, selectedRanges, gapThreshold, i, currentSlowSequence,
                   slowPeriods, gaps, gapPeriods>>
    /\ UNCHANGED unitVars

\* if (selectedRanges.length === 0) return [];
ReturnEmpty ==
    /\ pc = "start"
    /\ Len(selectedRanges) = 0
    /\ result' = <<>>
    /\ pc' = "done"
    /\ UNCHANGED <<records, selectedRanges, gapThreshold, i, currentSlowSequence,
                   slowPeriods, gaps, gapPeriods>>
    /\ UNCHANGED unitVars

\* call of findSpeedBasedSlowPeriods
BeginSlowScan ==
    /\ pc = "start"
    /\ Len(selectedRanges) # 0
    /\ pc' = "slowScan"
    /\ i' = 1
    /\ currentSlowSequence' = <<>>
    /\ slowPeriods' = <<>>
    /\ UNCHANGED <<records, selectedRanges, gapThreshold, gaps, gapPeriods, result>>
    /\ UNCHANGED unitVars

\* one iteration of the for loop of findSpeedBasedSlowPeriods
ScanRecord ==
    /\ pc = "slowScan"
    /\ i <= Len(records)
    /\ LET st == ScanStep([periods |-> slowPeriods, seq |-> currentSlowSequence],
                          records[i], selectedRanges, gapThreshold)
       IN  /\ slowPeriods' = st.periods
           /\ currentSlowSequence' = st.seq
    /\ i' = i + 1
    /\ UNCHANGED <<records, selectedRanges, gapThreshold, pc, gaps, gapPeriods, result>>
    /\ UNCHANGED unitVars

\* the final sequence, the return of findSpeedBasedSlowPeriods and the call of
\* findMatchingRecordingGaps / findTimestampGaps
FinishSlowScan ==
    /\ pc = "slowScan"
    /\ i > Len(records)
    /\ slowPeriods' = slowPeriods \o processSlowSequence(currentSlowSequence, selectedRanges)
    /\ pc' = "gapScan"
    /\ i' = 2
    /\ gaps' = <<>>
    /\ UNCHANGED <<records, selectedRanges, gapThreshold, currentSlowSequence,
                   gapPeriods, result>>
    /\ UNCHANGED unitVars

\* one iteration of the for loop of findTimestampGaps
ScanPair ==
    /\ pc = "gapScan"
    /\ i <= Len(records)
    /\ gaps' = gaps \o GapBetween(records[i - 1], records[i], gapThreshold)
    /\ i' = i + 1
    /\ UNCHANGED <<records, selectedRanges, gapThreshold, pc, currentSlowSequence,
                   slowPeriods, gapPeriods, result>>
    /\ UNCHANGED unitVars

\* the return of findTimestampGaps and the rest of findMatchingRecordingGaps
MatchGaps ==
    /\ pc = "gapScan"
    /\ i > Len(records)
    /\ gapPeriods' = MatchingGaps(gaps, selectedRanges)
    /\ pc' = "sort"
    /\ UNCHANGED <<records, selectedRanges, gapThreshold, i, currentSlowSequence,
                   slowPeriods, gaps, result>>
    /\ UNCHANGED unitVars

\* return [...slowPeriods, ...gapPeriods].sort(...)
ReturnSorted ==
    /\ pc = "sort"
    /\ result' = CombinePeriods(slowPeriods, gapPeriods)
    /\ pc' = "done"
    /\ UNCHANGED <<records, selectedRanges, gapThreshold, i, currentSlowSequence,
                   slowPeriods, gaps, gapPeriods>>
    /\ UNCHANGED unitVars

Next ==
    \/ ReturnEmpty
    \/ BeginSlowScan
    \/ ScanRecord
    \/ FinishSlowScan
    \/ ScanPair
    \/ MatchGaps
    \/ ReturnSorted

Spec == Init /\ [][Next]_vars

\* the same analysis over records whose speed and enhancedSpeed fields vary
InitSpeed ==
    /\ records \in SeqsUpTo(SpeedSamples, MaxSpeedRecords)
    /\ selectedRanges \in Selections
    /\ gapThreshold \in GapThresholds
    /\ AnalysisStart
    /\ MatchIdle
    /\ StatsIdle
    /\ BuildIdle
    /\ RepeatIdle
    /\ MergeIdle
    /\ AppIdle

SpecSpeed == InitSpeed /\ [][Next]_vars

\* longest record list analysed when the gap threshold varies
MaxThresholdRecords == 3

\* 0 s, 20 s, 2 min 30 s and 4 min 44 s after the start, or no timestamp
ThresholdTimestamps == {<<>>, <<0>>, <<20000>>, <<150000>>, <<284000>>}

ThresholdSamples == {Sample(ts, sp, <<>>) : ts \in ThresholdTimestamps, sp \in Speeds}

\* no tolerance at all, the default, 2 min 20 s and 5 min
ThresholdValues == {0, DEFAULT_GAP_THRESHOLD_MS, 140000, 300000}

\* the same analysis under several gap thresholds
InitThreshold ==
    /\ records \in SeqsUpTo(ThresholdSamples, MaxThresholdRecords)
    /\ selectedRanges \in Selections
    /\ gapThreshold \in ThresholdValues
    /\ AnalysisStart
    /\ MatchIdle
    /\ StatsIdle
    /\ BuildIdle
    /\ RepeatIdle
    /\ MergeIdle
    /\ AppIdle

SpecThreshold == InitThreshold /\ [][Next]_vars

(***************************************************************************)
(* matchesTimeRange called on its own                                      *)
(***************************************************************************)
\* the six buckets and an identifier that is none of them
RangeArguments == {DEFAULT_SELECTED_RANGES[k] : k \in 1..Len(DEFAULT_SELECTED_RANGES)}
                  \cup {"unknown"}

\* minutes: 0, 1.5, 2, 4.5, 5, 9.5, 10, 29.5, 30, 59.5, 60, 120
MinuteArguments == {Frac(n, 2) : n \in {0, 3, 4, 9, 10, 19, 20, 59, 60, 119, 120, 240}}

\* hours: 0, 0.75, 1, 1.75, 2, 3
HourArguments == {Frac(n, 4) : n \in {0, 3, 4, 7, 8, 12}}

AnalysisIdle ==
    /\ records = <<>>
    /\ selectedRanges = <<>>
    /\ gapThreshold = DEFAULT_GAP_THRESHOLD_MS
    /\ AnalysisStart

InitMatch ==
    /\ AnalysisIdle
    /\ MatchIdle
    /\ StatsIdle
    /\ BuildIdle
    /\ RepeatIdle
    /\ MergeIdle
    /\ AppIdle

CallMatchesTimeRange ==
    /\ \E range \in RangeArguments, durationMinutes \in MinuteArguments,
          durationHours \in HourArguments :
          /\ mRange' = range
          /\ mMinutes' = durationMinutes
          /\ mHours' = durationHours
          /\ mResult' = <<matchesTimeRange(range, durationMinutes, durationHours)>>
    /\ UNCHANGED analysisVars
    /\ UNCHANGED <<statsVars, mergeVars, repeatVars, buildVars, appVars>>

NextMatch == CallMatchesTimeRange

SpecMatch == InitMatch /\ [][NextMatch]_vars

(***************************************************************************)
(* calculateSlowPeriodStatistics called on a returned list                 *)
(***************************************************************************)
\* longest interval list aggregated
MaxPeriods == 3

\* the period built by the helper of the statistics tests, in milliseconds
createPeriod(startOffsetMs, durationMs) ==
    [startTime     |-> startOffsetMs,
     endTime       |-> startOffsetMs + durationMs,
     recordCount   |-> 1,
     startDistance |-> 0,
     endDistance   |-> 0,
     gpsPoints     |-> <<>>]

\* -3 min, 1 min, 180.499 s, 180.5 s, 5 min, 7 min, 1 h, 2 h
SlowDurations == {-180000, 60000, 180499, 180500, 300000, 420000, 3600000, 7200000}

\* -3 min, 180.5 s, 7 min
GapDurations == {-180000, 180500, 420000}

\* periods without isGap, with isGap: true and with isGap: false
StatsPeriods ==
    {createPeriod(0, d) : d \in SlowDurations}
    \cup {createPeriod(0, d) @@ [isGap |-> TRUE] : d \in GapDurations}
    \cup {createPeriod(0, 180499) @@ [isGap |-> FALSE]}

StatsSelections == {<<>>, <<"2to5", "5to10">>, <<"2to5", "2to5">>, <<"30to60">>,
                    DEFAULT_SELECTED_RANGES}

\* findSlowPeriodsWithRanges has returned the list result
InitStats ==
    /\ records = <<>>
    /\ selectedRanges \in StatsSelections
    /\ gapThreshold = DEFAULT_GAP_THRESHOLD_MS
    /\ pc = "done"
    /\ i = 1
    /\ currentSlowSequence = <<>>
    /\ slowPeriods = <<>>
    /\ gaps = <<>>
    /\ gapPeriods = <<>>
    /\ result \in SeqsUpTo(StatsPeriods, MaxPeriods)
    /\ MatchIdle
    /\ StatsIdle
    /\ BuildIdle
    /\ RepeatIdle
    /\ MergeIdle
    /\ AppIdle

\* const stats = calculateSlowPeriodStatistics(slowPeriods, selectedRanges)
CalculateStatistics ==
    /\ pc = "done"
    /\ stats = <<>>
    /\ stats' = <<calculateSlowPeriodStatistics(result, selectedRanges)>>
    /\ UNCHANGED analysisVars
    /\ UNCHANGED <<matchVars, mergeVars, repeatVars, buildVars, appVars>>

NextStats == CalculateStatistics

SpecStats == InitStats /\ [][NextStats]_vars

(***************************************************************************)
(* the interval mergers called on a sorted list                            *)
(***************************************************************************)
\* longest interval list merged
MaxMerged == 3

\* start and end of the intervals merged: the second starts 30 s after the
\* first ends, the third exactly 60 s after the first ends, the fourth 30 s
\* after the second ends, the fifth exactly 60 s after the fourth ends; the
\* sixth starts with the first and ends after the third
MergeSpans == {<<0, 60000>>, <<90000, 150000>>, <<120000, 180000>>,
               <<180000, 240000>>, <<300000, 360000>>, <<0, 200000>>}

\* a slow period as processSlowSequence builds it
SlowPeriodOver(span) ==
    [startTime     |-> span[1],
     endTime       |-> span[2],
     recordCount   |-> 2,
     startDistance |-> span[1] \div 1000,
     endDistance   |-> span[2] \div 1000,
     gpsPoints     |-> <<>>]

\* a gap period as findTimestampGaps and convertGapToPeriod build it
GapPeriodOver(span) ==
    convertGapToPeriod(GapBetween(Sample(<<span[1]>>, <<200>>, <<>>),
                                  Sample(<<span[2]>>, <<200>>, <<>>), 0)[1])

\* the lists are sorted by start time, as the mergers expect
SortedByStartTime(periods) ==
    \A k \in 1..(Len(periods) - 1) : periods[k].startTime <= periods[k + 1].startTime

MergerArguments ==
    {periods \in SeqsUpTo({SlowPeriodOver(span) : span \in MergeSpans}, MaxMerged)
                 \cup SeqsUpTo({GapPeriodOver(span) : span \in MergeSpans}, MaxMerged) :
        SortedByStartTime(periods)}

InitMerge ==
    /\ records = <<>>
    /\ selectedRanges = <<>>
    /\ gapThreshold = DEFAULT_GAP_THRESHOLD_MS
    /\ pc = "merge"
    /\ i = 1
    /\ currentSlowSequence = <<>>
    /\ slowPeriods = <<>>
    /\ gaps = <<>>
    /\ gapPeriods = <<>>
    /\ result = <<>>
    /\ MatchIdle
    /\ StatsIdle
    /\ BuildIdle
    /\ RepeatIdle
    /\ AppIdle
    /\ mergeFn = ""
    /\ mergeArg \in MergerArguments
    /\ mergeResult = <<>>

\* const mergedSlowPeriods = mergeNearbySlowPeriods(slowPeriods)
CallMergeNearbySlowPeriods ==
    /\ pc = "merge"
    /\ \A k \in 1..Len(mergeArg) : ~IsGap(mergeArg[k])
    /\ mergeFn' = "mergeNearbySlowPeriods"
    /\ mergeResult' = <<mergeNearbySlowPeriods(mergeArg)>>
    /\ pc' = "merged"
    /\ UNCHANGED <<records, selectedRanges, gapThreshold, i, currentSlowSequence,
                   slowPeriods, gaps, gapPeriods, result, mergeArg>>
    /\ UNCHANGED <<matchVars, statsVars, repeatVars, buildVars, appVars>>

\* const mergedGapPeriods = mergeNearbyRecordingGaps(gapPeriods)
CallMergeNearbyRecordingGaps ==
    /\ pc = "merge"
    /\ \A k \in 1..Len(mergeArg) : IsGap(mergeArg[k])
    /\ mergeFn' = "mergeNearbyRecordingGaps"
    /\ mergeResult' = <<mergeNearbyRecordingGaps(mergeArg)>>
    /\ pc' = "merged"
    /\ UNCHANGED <<records, selectedRanges, gapThreshold, i, currentSlowSequence,
                   slowPeriods, gaps, gapPeriods, result, mergeArg>>
    /\ UNCHANGED <<matchVars, statsVars, repeatVars, buildVars, appVars>>

\* the merger called a second time, on the list it returned
MergeAgain ==
    /\ pc = "merged"
    /\ mergeResult' = IF mergeFn = "mergeNearbySlowPeriods"
                      THEN <<mergeNearbySlowPeriods(mergeResult[1])>>
                      ELSE <<mergeNearbyRecordingGaps(mergeResult[1])>>
    /\ pc' = "remerged"
    /\ UNCHANGED <<records, selectedRanges, gapThreshold, i, currentSlowSequence,
                   slowPeriods, gaps, gapPeriods, result, mergeFn, mergeArg>>
    /\ UNCHANGED <<matchVars, statsVars, repeatVars, buildVars, appVars>>

NextMerge ==
    \/ CallMergeNearbySlowPeriods
    \/ CallMergeNearbyRecordingGaps
    \/ MergeAgain

SpecMerge == InitMerge /\ [][NextMerge]_vars

(***************************************************************************)
(* Properties                                                              *)
(***************************************************************************)
Ts(record) == record.timestamp[1]

\* the elements of a finite set of integers in increasing order
RECURSIVE AscendingSeq(_)
AscendingSeq(S) ==
    IF S = {} THEN <<>>
    ELSE LET m == CHOOSE x \in S : \A y \in S : x <= y
         IN  <<m>> \o AscendingSeq(S \ {m})

\* the records whose pair with the record before has been scanned for a gap
GapScanned ==
    IF pc = "gapScan" THEN i - 1
    ELSE IF pc \in {"sort", "done"} /\ selectedRanges # <<>> THEN Len(records)
    ELSE 0

\* the indices j whose pair (j - 1, j) is timestamped on both sides and more
\* than the threshold apart
QualifyingPairs(upto) ==
    {j \in 2..upto : /\ Present(records[j - 1].timestamp)
                     /\ Present(records[j].timestamp)
                     /\ Ts(records[j]) - Ts(records[j - 1]) > gapThreshold}

\* C1: findTimestampGaps holds, in input order, exactly one gap per consecutive
\* pair of records that are both timestamped and strictly more than the
\* threshold apart; every gap spans two neighbouring records.
C1_ExactlyTheQualifyingPairs ==
    LET idx == AscendingSeq(QualifyingPairs(GapScanned))
    IN  /\ Len(gaps) = Len(idx)
        /\ \A k \in 1..Len(idx) :
              /\ gaps[k].startTime = Ts(records[idx[k] - 1])
              /\ gaps[k].endTime = Ts(records[idx[k]])
              /\ gaps[k].gapDuration = Ts(records[idx[k]]) - Ts(records[idx[k] - 1])

\* a finished gap scan that found a gap and skipped an untimestamped record
\* whose timestamped neighbours are more than the threshold apart
C1_Witness ==
    /\ pc = "sort"
    /\ Len(gaps) >= 1
    /\ \E j \in 2..(Len(records) - 1) :
          /\ ~Present(records[j].timestamp)
          /\ Present(records[j - 1].timestamp)
          /\ Present(records[j + 1].timestamp)
          /\ Ts(records[j + 1]) - Ts(records[j - 1]) > gapThreshold

\* the records the slow scan has gone through
SlowScanned ==
    IF pc = "slowScan" THEN i - 1
    ELSE IF pc \in {"gapScan", "sort", "done"} /\ selectedRanges # <<>> THEN Len(records)
    ELSE 0

\* the index ranges a..b of slow records that period can have been built from:
\* first and last timestamps and the number of records agree
RunsOf(period, upto) ==
    {r \in (1..upto) \X (1..upto) :
        /\ r[1] <= r[2]
        /\ \A j \in r[1]..r[2] : IsSlow(records[j])
        /\ Present(records[r[1]].timestamp)
        /\ Present(records[r[2]].timestamp)
        /\ period.startTime = Ts(records[r[1]])
        /\ period.endTime = Ts(records[r[2]])
        /\ period.recordCount = r[2] - r[1] + 1}

\* findSpeedBasedSlowPeriods has just returned
JustScanned == pc = "gapScan" /\ i = 2 /\ gaps = <<>>

\* a record that is fast and carries nothing else
FastSample == Sample(<<>>, <<200>>, <<>>)

\* C2: the slow scan has two states, an empty run and an accumulating run made
\* of the slow records just scanned; a fast record leaves the run empty; every
\* emitted period starts at its run's first timestamp, ends at its run's last
\* timestamp and counts the run's records; periods come in input order; and the
\* run open at the end of the input is flushed as if a fast record followed.
C2_TwoStateScan ==
    /\ pc = "slowScan" =>
          /\ Len(currentSlowSequence) <= i - 1
          /\ currentSlowSequence = SubSeq(records, i - Len(currentSlowSequence), i - 1)
          /\ \A k \in 1..Len(currentSlowSequence) : IsSlow(currentSlowSequence[k])
          /\ i > 1 => (currentSlowSequence = <<>> <=> ~IsSlow(records[i - 1]))
    /\ (pc = "slowScan" \/ JustScanned) =>
          LET closed == IF pc = "slowScan" THEN SlowScanned - Len(currentSlowSequence)
                        ELSE SlowScanned
          IN  /\ \A k \in 1..Len(slowPeriods) : RunsOf(slowPeriods[k], closed) # {}
              /\ \A k, l \in 1..Len(slowPeriods) :
                    k < l => \E r1 \in RunsOf(slowPeriods[k], closed),
                                r2 \in RunsOf(slowPeriods[l], closed) : r1[2] < r2[1]
    /\ JustScanned =>
          slowPeriods = findSpeedBasedSlowPeriods(Append(records, FastSample),
                                                  selectedRanges, gapThreshold)

\* the input ends inside a slow run that began after a fast record, and the
\* final flush emitted that run as a period
C2_Witness ==
    /\ pc = "gapScan"
    /\ Len(records) >= 3
    /\ ~IsSlow(records[1])
    /\ IsSlow(records[Len(records)])
    /\ Len(slowPeriods) = 1
    /\ slowPeriods[1].startTime = Ts(records[2])
    /\ slowPeriods[1].endTime = Ts(records[Len(records)])
    /\ slowPeriods[1].recordCount = Len(records) - 1

\* two records that are both timestamped and more than the threshold apart
FarApart(earlier, later) ==
    /\ Present(earlier.timestamp)
    /\ Present(later.timestamp)
    /\ Ts(later) - Ts(earlier) > gapThreshold

\* the step flushes the run: the emitted periods are kept, and at most one
\* period, spanning the run, is added behind them
FlushesRun ==
    \/ slowPeriods' = slowPeriods
    \/ /\ Len(slowPeriods') = Len(slowPeriods) + 1
       /\ SubSeq(slowPeriods', 1, Len(slowPeriods)) = slowPeriods
       /\ LET period == slowPeriods'[Len(slowPeriods')]
          IN  /\ period.startTime = Ts(currentSlowSequence[1])
              /\ period.endTime = Ts(currentSlowSequence[Len(currentSlowSequence)])
              /\ period.recordCount = Len(currentSlowSequence)

C3_SlowRecordStep ==
    (pc = "slowScan" /\ i <= Len(records) /\ IsSlow(records[i])) =>
        IF /\ currentSlowSequence # <<>>
           /\ FarApart(currentSlowSequence[Len(currentSlowSequence)], records[i])
        THEN /\ currentSlowSequence' = <<records[i]>>
             /\ FlushesRun
        ELSE /\ currentSlowSequence' = Append(currentSlowSequence, records[i])
             /\ slowPeriods' = slowPeriods

C3_NoFarNeighbours ==
    /\ pc = "slowScan" =>
          \A k \in 1..(Len(currentSlowSequence) - 1) :
              ~FarApart(currentSlowSequence[k], currentSlowSequence[k + 1])
    /\ (pc = "slowScan" \/ JustScanned) =>
          \A k \in 1..Len(slowPeriods) :
              \E r \in RunsOf(slowPeriods[k], SlowScanned) :
                  \A j \in r[1]..(r[2] - 1) : ~FarApart(records[j], records[j + 1])

\* C3: a slow record that is more than gapThreshold later than the last record
\* of a non-empty run flushes the run and starts a new run holding only that
\* record; otherwise (difference <= gapThreshold, or a timestamp missing) it is
\* appended; so no run, and no emitted period, holds two neighbouring
\* timestamped records more than gapThreshold apart.
C3_BreakOnTimestampGap == [][C3_SlowRecordStep]_vars /\ []C3_NoFarNeighbours

\* three slow records, the third more than the threshold after the second: the
\* run of the first two has been flushed as a period and the third starts a run
C3_Witness ==
    /\ pc = "slowScan"
    /\ i = 4
    /\ \A j \in 1..3 : IsSlow(records[j])
    /\ FarApart(records[2], records[3])
    /\ ~FarApart(records[1], records[2])
    /\ currentSlowSequence = <<records[3]>>
    /\ Len(slowPeriods) = 1
    /\ slowPeriods[1].endTime = Ts(records[2])

\* the buckets as half-open ranges of milliseconds
BucketContainsMs(range, ms) ==
    \/ range = "2to5"       /\ 2 * 60000 <= ms /\ ms < 5 * 60000
    \/ range = "5to10"      /\ 5 * 60000 <= ms /\ ms < 10 * 60000
    \/ range = "10to30"     /\ 10 * 60000 <= ms /\ ms < 30 * 60000
    \/ range = "30to60"     /\ 30 * 60000 <= ms /\ ms < 60 * 60000
    \/ range = "1to2hours"  /\ 60 * 60000 <= ms /\ ms < 120 * 60000
    \/ range = "over2hours" /\ 120 * 60000 <= ms

SelectedBucketContainsMs(ms) ==
    \E k \in 1..Len(selectedRanges) : BucketContainsMs(selectedRanges[k], ms)

\* the run has both boundary timestamps and a duration in a selected bucket
RunMatches(run) ==
    /\ run # <<>>
    /\ Present(run[1].timestamp)
    /\ Present(run[Len(run)].timestamp)
    /\ SelectedBucketContainsMs(Ts(run[Len(run)]) - Ts(run[1]))

\* the step of the slow scan flushes the run
FlushStep ==
    /\ pc = "slowScan"
    /\ \/ i > Len(records)
       \/ ~IsSlow(records[i])
       \/ /\ currentSlowSequence # <<>>
          /\ FarApart(currentSlowSequence[Len(currentSlowSequence)], records[i])

C4_FlushEmitsIffMatch ==
    FlushStep => /\ FlushesRun
                 /\ (slowPeriods' # slowPeriods) <=> RunMatches(currentSlowSequence)

C4_PeriodsInSelectedBuckets ==
    /\ \A k \in 1..Len(slowPeriods) :
          /\ SelectedBucketContainsMs(slowPeriods[k].endTime - slowPeriods[k].startTime)
          /\ slowPeriods[k].endTime - slowPeriods[k].startTime >= 2 * 60000
    /\ \A k \in 1..Len(result) :
          ~IsGap(result[k]) =>
              /\ SelectedBucketContainsMs(result[k].endTime - result[k].startTime)
              /\ result[k].endTime - result[k].startTime >= 2 * 60000

\* C4: a flushed run is emitted iff its unrounded duration lies in a selected
\* bucket, so every slow period of the detector and of the orchestrator lasts
\* at least 2 minutes and lies in a selected bucket, and a run matching no
\* selected bucket produces nothing.
C4_EmittedIffDurationMatches == [][C4_FlushEmitsIffMatch]_vars /\ []C4_PeriodsInSelectedBuckets

\* a run of 4 min 30 s was emitted under a selection without '5to10', and the
\* timestamped run open at the end of the input matched nothing and left nothing
C4_Witness ==
    /\ JustScanned
    /\ selectedRanges = <<"2to5">>
    /\ Len(slowPeriods) = 1
    /\ slowPeriods[1].endTime - slowPeriods[1].startTime = 270000
    /\ currentSlowSequence # <<>>
    /\ Present(currentSlowSequence[1].timestamp)
    /\ Present(currentSlowSequence[Len(currentSlowSequence)].timestamp)
    /\ ~RunMatches(currentSlowSequence)

\* the effective speed as documented: enhancedSpeed whenever it is present
\* (whatever its value), otherwise speed when present, otherwise 0
DocumentedEffectiveSpeed(record) ==
    IF Present(record.enhancedSpeed) THEN record.enhancedSpeed[1]
    ELSE IF Present(record.speed) THEN record.speed[1]
    ELSE 0

\* C5: the slow scan treats a record as slow (takes it into the run) iff its
\* effective speed, enhancedSpeed when present else speed else 0, is strictly
\* below 0.75 m/s; so a record with enhancedSpeed 0 and speed >= 0.75 is slow.
C5_SlowIffEffectiveSpeedBelowThreshold ==
    (pc = "slowScan" /\ i > 1) =>
        ((DocumentedEffectiveSpeed(records[i - 1]) < SPEED_THRESHOLD)
            <=> (/\ currentSlowSequence # <<>>
                 /\ currentSlowSequence[Len(currentSlowSequence)] = records[i - 1]))

\* the periods of a list that start at instant t, in the order of the list
StartingAt(periods, t) ==
    LET Starts(p) == p.startTime = t
    IN  SelectSeq(periods, Starts)

\* C6: the list returned by findSlowPeriodsWithRanges is ascending in startTime
\* for every input, and intervals with the same startTime keep the order of
\* the concatenation: a slow period comes before a gap starting at that instant.
C6_SortedByStartTimeStable ==
    pc = "done" =>
        /\ \A k \in 1..(Len(result) - 1) : result[k].startTime <= result[k + 1].startTime
        /\ \A k \in 1..Len(result) :
              StartingAt(result, result[k].startTime)
                  = StartingAt(slowPeriods \o gapPeriods, result[k].startTime)
        /\ \A k, l \in 1..Len(result) :
              (k < l /\ result[k].startTime = result[l].startTime /\ IsGap(result[k]))
                  => IsGap(result[l])

\* the returned list holds a slow period directly followed by a gap that starts
\* at the same instant
C6_Witness ==
    /\ pc = "done"
    /\ \E k \in 1..(Len(result) - 1) :
          /\ ~IsGap(result[k])
          /\ IsGap(result[k + 1])
          /\ result[k].startTime = result[k + 1].startTime

\* a duration in whole minutes, halves rounded up
RoundedMinutes(ms) == (ms + 30000) \div 60000

\* the gap's duration, rounded to minutes, lies in a selected bucket
GapKept(gap) ==
    SelectedBucketContainsMs(RoundedMinutes(gap.endTime - gap.startTime) * 60000)

GapIntervals == {k \in 1..Len(result) : IsGap(result[k])}

\* the gap intervals of the returned list that wrap gap
WrappersOf(gap) ==
    {k \in GapIntervals : /\ result[k].gapData = gap
                          /\ result[k].recordCount = 0
                          /\ result[k].startTime = gap.startTime
                          /\ result[k].endTime = gap.endTime}

\* C7 as stated: with a non-empty selection the returned list holds one gap
\* interval for every gap the gap detector reports, none is left out.
C7_EveryDetectedGapReturned ==
    (pc = "done" /\ selectedRanges # <<>>) =>
        /\ Cardinality(GapIntervals) = Len(gaps)
        /\ \A j \in 1..Len(gaps) : WrappersOf(gaps[j]) # {}

\* C7 as amended: with a non-empty selection the returned list holds one gap
\* interval for every detected gap whose rounded duration lies in a selected
\* bucket, and none for a detected gap that matches no selected bucket.
C7_EveryMatchingGapReturned ==
    (pc = "done" /\ selectedRanges # <<>>) =>
        /\ Cardinality(GapIntervals)
              = Cardinality({j \in 1..Len(gaps) : GapKept(gaps[j])})
        /\ \A j \in 1..Len(gaps) : GapKept(gaps[j]) <=> WrappersOf(gaps[j]) # {}

\* the analysis returned with one detected gap wrapped and another left out
C7_Witness ==
    /\ pc = "done"
    /\ selectedRanges # <<>>
    /\ \E j \in 1..Len(gaps) : WrappersOf(gaps[j]) # {}
    /\ \E j \in 1..Len(gaps) : WrappersOf(gaps[j]) = {}

\* C8: findMatchingRecordingGaps keeps a detected gap iff a selected bucket
\* contains its duration rounded to minutes, in detection order; a gap that is
\* not kept is absent from the returned list; a gap of 4 min 30 s is kept under
\* '5to10' and not under '2to5'.
C8_GapsFilteredOnRoundedMinutes ==
    (pc \in {"sort", "done"} /\ selectedRanges # <<>>) =>
        /\ [k \in 1..Len(gapPeriods) |-> gapPeriods[k].gapData] = SelectSeq(gaps, GapKept)
        /\ \A k \in 1..Len(gapPeriods) : gapPeriods[k] = convertGapToPeriod(gapPeriods[k].gapData)
        /\ \A j \in 1..Len(gaps) :
              /\ gaps[j].gapDurationMinutes = RoundedMinutes(gaps[j].gapDuration)
              /\ gaps[j].gapDuration = 270000 =>
                    (GapKept(gaps[j]) <=> \E k \in 1..Len(selectedRanges) :
                                              selectedRanges[k] = "5to10")
              /\ (pc = "done" /\ ~GapKept(gaps[j])) =>
                    \A k \in 1..Len(result) : ~(IsGap(result[k]) /\ result[k].gapData = gaps[j])

\* under the selection '2to5' alone a detected gap of 4 min 30 s was dropped
\* and a detected gap of 2 min 30 s was kept
C8_Witness ==
    /\ pc = "sort"
    /\ selectedRanges = <<"2to5">>
    /\ \E j \in 1..Len(gaps) : gaps[j].gapDuration = 270000
    /\ Len(gapPeriods) = 1
    /\ gapPeriods[1].gapData.gapDuration = 150000

\* positions k < l of the returned list that hold two intervals of the same
\* kind with no interval of that kind between them
NextOfSameKind(k, l) ==
    /\ k < l
    /\ IsGap(result[k]) = IsGap(result[l])
    /\ \A m \in (k + 1)..(l - 1) : IsGap(result[m]) # IsGap(result[k])

\* how often period occurs in the list periods
Occurrences(periods, period) == Cardinality({k \in 1..Len(periods) : periods[k] = period})

InHalfOpen(v, lo, hi) == lo * v.d <= v.n /\ v.n < hi * v.d

\* the bucket table: unit tested, lower bound, upper bound (0: none)
BucketTable ==
    [range \in {"2to5", "5to10", "10to30", "30to60", "1to2hours", "over2hours"} |->
        CASE range = "2to5"       -> [unit |-> "minutes", lower |-> 2,  upper |-> 5]
          [] range = "5to10"      -> [unit |-> "minutes", lower |-> 5,  upper |-> 10]
          [] range = "10to30"     -> [unit |-> "minutes", lower |-> 10, upper |-> 30]
          [] range = "30to60"     -> [unit |-> "minutes", lower |-> 30, upper |-> 60]
          [] range = "1to2hours"  -> [unit |-> "hours",   lower |-> 1,  upper |-> 2]
          [] range = "over2hours" -> [unit |-> "hours",   lower |-> 2,  upper |-> 0]]

InBucket(range, minutes, hours) ==
    /\ range \in DOMAIN BucketTable
    /\ LET b == BucketTable[range]
           v == IF b.unit = "hours" THEN hours ELSE minutes
       IN  IF b.upper = 0 THEN b.lower * v.d <= v.n
           ELSE InHalfOpen(v, b.lower, b.upper)

\* C10: matchesTimeRange is the half-open test lower <= value < upper of the
\* bucket's own unit (minutes for the four minute buckets, hours for the two
\* hour buckets, no upper bound for 'over2hours'); exactly 5 minutes is in
\* '5to10' and not in '2to5'; an unrecognised bucket gives false.
C10_HalfOpenBuckets ==
    mResult # <<>> =>
        /\ mResult[1] = InBucket(mRange, mMinutes, mHours)
        /\ (mMinutes = Frac(10, 2) /\ mRange = "5to10") => mResult[1]
        /\ (mMinutes = Frac(10, 2) /\ mRange = "2to5") => ~mResult[1]
        /\ mRange \notin DOMAIN BucketTable => ~mResult[1]

\* exactly 5 minutes was tested against '5to10', with an hours argument of 3,
\* and matched
C10_Witness ==
    /\ mRange = "5to10"
    /\ mMinutes = Frac(10, 2)
    /\ mHours = Frac(12, 4)
    /\ mResult = <<TRUE>>

\* the duration of an interval in milliseconds
DurationMs(period) == period.endTime - period.startTime

\* the entries of the breakdown that counted an interval
CountingEntries ==
    {k \in 1..Len(stats[1].rangeBreakdown) : stats[1].rangeBreakdown[k].count >= 1}

\* one interval that is no gap, of a duration d >= 0, has been aggregated over
\* the six buckets: entry k counts it iff bucket k matches d minutes, d/60 hours
OneDurationClassified ==
    /\ stats # <<>>
    /\ selectedRanges = DEFAULT_SELECTED_RANGES
    /\ Len(result) = 1
    /\ ~IsGap(result[1])
    /\ DurationMs(result[1]) >= 0

\* C11 as stated: for every duration d >= 0 (minutes, hours = d/60) exactly one
\* of the six buckets' membership predicates holds, never zero and never two.
C11_ExactlyOneBucket ==
    OneDurationClassified => Cardinality(CountingEntries) = 1

\* C11 as amended: for every duration d >= 0 at most one of the six buckets'
\* membership predicates holds: exactly one when d is at least 2 minutes, and
\* none when d is below 2 minutes.
C11_OneBucketFromTwoMinutes ==
    OneDurationClassified =>
        Cardinality(CountingEntries) = IF DurationMs(result[1]) >= 2 * 60000 THEN 1 ELSE 0

\* a duration of exactly one hour was counted by '1to2hours', the fifth bucket,
\* and by no other
C11_Witness ==
    /\ OneDurationClassified
    /\ DurationMs(result[1]) = 3600000
    /\ CountingEntries = {5}

\* a duration in whole seconds, halves rounded up, never below zero
RoundedSeconds(ms) ==
    LET s == (ms + 500) \div 1000
    IN  IF s < 0 THEN 0 ELSE s

\* the sum of the rounded seconds of the intervals at the positions S of result
RECURSIVE SumSeconds(_)
SumSeconds(S) ==
    IF S = {} THEN 0
    ELSE LET k == CHOOSE x \in S : TRUE
         IN  RoundedSeconds(DurationMs(result[k])) + SumSeconds(S \ {k})

\* the positions of result that hold an interval with isGap true
GapPositions ==
    {k \in 1..Len(result) : "isGap" \in DOMAIN result[k] /\ result[k].isGap = TRUE}

\* C12: calculateSlowPeriodStatistics returns slowCount = number of intervals
\* with isGap not true, gapCount = number with isGap true (their sum is the
\* number of intervals), totalDurationSeconds = sum over all intervals of
\* max(0, round((endTime - startTime) / 1000)), gapDurationSeconds = the same
\* sum over the gap intervals (never above the total); all four are 0 for an
\* empty list.
C12_SummaryStatistics ==
    stats # <<>> =>
        LET s == stats[1]
        IN  /\ s.slowCount = Len(result) - Cardinality(GapPositions)
            /\ s.gapCount = Cardinality(GapPositions)
            /\ s.slowCount + s.gapCount = Len(result)
            /\ s.totalDurationSeconds = SumSeconds(1..Len(result))
            /\ s.gapDurationSeconds = SumSeconds(GapPositions)
            /\ s.gapDurationSeconds <= s.totalDurationSeconds
            /\ result = <<>> => /\ s.slowCount = 0
                                /\ s.gapCount = 0
                                /\ s.totalDurationSeconds = 0
                                /\ s.gapDurationSeconds = 0

\* a gap of 7 min, an interval of 180.5 s (181 s rounded) and an interval that
\* ends 3 min before it starts (0 s) were aggregated
C12_Witness ==
    /\ stats # <<>>
    /\ Len(result) = 3
    /\ IsGap(result[1]) /\ DurationMs(result[1]) = 420000
    /\ ~IsGap(result[2]) /\ DurationMs(result[2]) = 180500
    /\ ~IsGap(result[3]) /\ DurationMs(result[3]) = -180000
    /\ stats[1].slowCount = 2
    /\ stats[1].gapCount = 1
    /\ stats[1].totalDurationSeconds = 601
    /\ stats[1].gapDurationSeconds = 420

\* the positions of result holding an interval that is no gap and whose
\* unrounded duration lies in the bucket range
PositionsInBucket(range) ==
    {k \in 1..Len(result) : /\ k \notin GapPositions
                            /\ BucketContainsMs(range, DurationMs(result[k]))}

\* C13: rangeBreakdown has one entry per element of the selection, in the same
\* order and without deduplication; entry k counts the non-gap intervals whose
\* unrounded duration matches bucket k and sums their rounded seconds; a gap
\* never contributes; a bucket without a match has count 0 and 0 seconds.
C13_RangeBreakdown ==
    stats # <<>> =>
        LET rangeBreakdown == stats[1].rangeBreakdown
        IN  /\ Len(rangeBreakdown) = Len(selectedRanges)
            /\ \A k \in 1..Len(selectedRanges) :
                  /\ rangeBreakdown[k].range = selectedRanges[k]
                  /\ rangeBreakdown[k].count
                        = Cardinality(PositionsInBucket(selectedRanges[k]))
                  /\ rangeBreakdown[k].totalDurationSeconds
                        = SumSeconds(PositionsInBucket(selectedRanges[k]))
                  /\ PositionsInBucket(selectedRanges[k]) = {} =>
                        /\ rangeBreakdown[k].count = 0
                        /\ rangeBreakdown[k].totalDurationSeconds = 0

\* '2to5' was selected twice; a gap of 180.5 s and an interval of 180.499 s
\* were aggregated, and both entries count the interval alone
C13_Witness ==
    /\ stats # <<>>
    /\ selectedRanges = <<"2to5", "2to5">>
    /\ Len(result) = 2
    /\ IsGap(result[1]) /\ DurationMs(result[1]) = 180500
    /\ ~IsGap(result[2]) /\ DurationMs(result[2]) = 180499
    /\ \A k \in 1..2 : /\ stats[1].rangeBreakdown[k].count = 1
                       /\ stats[1].rangeBreakdown[k].totalDurationSeconds = 180

\* C14: every interval, slow period or gap, of the list returned by
\* findSlowPeriodsWithRanges has endTime >= startTime, for every record list
\* (timestamps may decrease or repeat) and every gap threshold >= 0; the same
\* holds of the two lists the returned list is made of.
C14_EndNotBeforeStart ==
    /\ gapThreshold >= 0 =>
          /\ \A k \in 1..Len(slowPeriods) : slowPeriods[k].endTime >= slowPeriods[k].startTime
          /\ \A k \in 1..Len(gapPeriods) : gapPeriods[k].endTime >= gapPeriods[k].startTime
    /\ (pc = "done" /\ gapThreshold >= 0) =>
          \A k \in 1..Len(result) : result[k].endTime >= result[k].startTime

\* records whose timestamps go back in time gave a returned list that holds an
\* interval, the run that ended before it started having been flushed already
C14_Witness ==
    /\ pc = "done"
    /\ Len(result) >= 1
    /\ Len(records) = 3
    /\ \A j \in 1..3 : IsSlow(records[j]) /\ Present(records[j].timestamp)
    /\ Ts(records[1]) > Ts(records[2])
    /\ Ts(records[3]) - Ts(records[2]) > gapThreshold

\* C20: every gap emitted by findTimestampGaps has gapDuration = t[i] - t[i-1]
\* in milliseconds, gapDurationMinutes = round(gapDuration / 60000) with halves
\* rounded up, and gapDurationHours = gapDurationMinutes / 60, derived from the
\* rounded minutes and not from the raw milliseconds.
C20_GapDurationFields ==
    \A k \in 1..Len(gaps) :
        LET gap == gaps[k]
        IN  /\ \E j \in 2..GapScanned :
                  /\ Present(records[j - 1].timestamp) /\ Present(records[j].timestamp)
                  /\ gap.startTime = Ts(records[j - 1])
                  /\ gap.endTime = Ts(records[j])
                  /\ gap.gapDuration = Ts(records[j]) - Ts(records[j - 1])
            /\ 2 * gap.gapDurationMinutes * 60000 - 2 * gap.gapDuration <= 60000
            /\ 2 * gap.gapDuration - 2 * gap.gapDurationMinutes * 60000 < 60000
            /\ gap.gapDurationHours.n * 60 = gap.gapDurationMinutes * gap.gapDurationHours.d

\* a gap of 2 min 30 s was given 3 minutes and 3/60 hours, a gap of 2 min 14 s
\* was given 2 minutes and 2/60 hours
C20_Witness ==
    /\ pc = "sort"
    /\ \E k \in 1..Len(gaps) : /\ gaps[k].gapDuration = 150000
                               /\ gaps[k].gapDurationMinutes = 3
                               /\ gaps[k].gapDurationHours = Frac(3, 60)
    /\ \E k \in 1..Len(gaps) : /\ gaps[k].gapDuration = 134000
                               /\ gaps[k].gapDurationMinutes = 2
                               /\ gaps[k].gapDurationHours = Frac(2, 60)

\* C15: in the returned list an interval has isGap = true iff it came from a
\* recording gap; a gap interval has recordCount 0 and carries the gap it came
\* from as gapData; a slow period has a recordCount >= 1 that is the length of
\* its run, and neither isGap nor gapData.
C15_GapFlagAndRecordCount ==
    pc = "done" =>
        /\ \A j \in 1..Len(slowPeriods) : ~IsGap(slowPeriods[j])
        /\ \A j \in 1..Len(gapPeriods) : IsGap(gapPeriods[j])
        /\ \A k \in 1..Len(result) :
              LET period == result[k]
              IN  IF "isGap" \in DOMAIN period
                  THEN /\ period.isGap = TRUE
                       /\ \E j \in 1..Len(gapPeriods) : gapPeriods[j] = period
                       /\ period.recordCount = 0
                       /\ HasGapData(period)
                       /\ \E j \in 1..Len(gaps) : period.gapData = gaps[j]
                       /\ period.startTime = period.gapData.startTime
                       /\ period.endTime = period.gapData.endTime
                  ELSE /\ \E j \in 1..Len(slowPeriods) : slowPeriods[j] = period
                       /\ period.recordCount >= 1
                       /\ RunsOf(period, Len(records)) # {}
                       /\ ~HasGapData(period)

\* the returned list holds a slow period of three records and a gap interval
C15_Witness ==
    /\ pc = "done"
    /\ \E k \in 1..Len(result) : ~IsGap(result[k]) /\ result[k].recordCount = 3
    /\ \E k \in 1..Len(result) : IsGap(result[k]) /\ result[k].recordCount = 0

\* the run is not empty and its first or its last record has no timestamp
BoundaryTimestampMissing(run) ==
    /\ run # <<>>
    /\ \/ ~Present(run[1].timestamp)
       \/ ~Present(run[Len(run)].timestamp)

\* the step goes on with the scan as after any flush: the next record starts
\* the new run if it is slow, the run is empty if it is fast, and after the last
\* record the gap scan begins
ScanGoesOn ==
    IF i <= Len(records)
    THEN /\ pc' = "slowScan"
         /\ i' = i + 1
         /\ currentSlowSequence' = IF IsSlow(records[i]) THEN <<records[i]>> ELSE <<>>
    ELSE /\ pc' = "gapScan"
         /\ gaps' = <<>>

C16_FlushOfUnstampedRun ==
    (FlushStep /\ BoundaryTimestampMissing(currentSlowSequence)) =>
        /\ slowPeriods' = slowPeriods
        /\ ScanGoesOn

\* C16: flushing a run whose first or whose last record lacks a timestamp emits
\* nothing, whatever the other records of the run hold, and the scan goes on
\* with the following records as after any other flush.
C16_UnstampedBoundaryEmitsNothing == [][C16_FlushOfUnstampedRun]_vars

\* a run that began with a record without timestamp was dropped at a fast
\* record, and the run of the two records after the fast one was emitted
C16_Witness ==
    /\ JustScanned
    /\ Len(records) >= 4
    /\ ~Present(records[1].timestamp)
    /\ \A j \in 1..(Len(records) - 3) : IsSlow(records[j])
    /\ ~IsSlow(records[Len(records) - 2])
    /\ Len(slowPeriods) = 1
    /\ slowPeriods[1].startTime = Ts(records[Len(records) - 1])
    /\ slowPeriods[1].endTime = Ts(records[Len(records)])

\* the step flushes a non-empty run and emits nothing
RunDropped ==
    /\ FlushStep
    /\ currentSlowSequence # <<>>
    /\ slowPeriods' = slowPeriods

\* both boundary records of the run are timestamped and the duration between
\* them lies in no selected bucket
DurationMatchesNoBucket(run) ==
    /\ Present(run[1].timestamp)
    /\ Present(run[Len(run)].timestamp)
    /\ ~SelectedBucketContainsMs(Ts(run[Len(run)]) - Ts(run[1]))

C17_DropForLackOfTimestamps ==
    (RunDropped /\ ~DurationMatchesNoBucket(currentSlowSequence)) =>
        /\ ~Present(currentSlowSequence[1].timestamp)
        /\ ~Present(currentSlowSequence[Len(currentSlowSequence)].timestamp)

\* C17 as stated: a slow run is dropped for lack of timestamps, that is without
\* a duration between its boundaries that matches no selected bucket, only when
\* both its first and its last record lack a timestamp.
C17_DroppedOnlyIfBothMissing == [][C17_DropForLackOfTimestamps]_vars

C17_DropForLackOfATimestamp ==
    /\ (RunDropped /\ ~DurationMatchesNoBucket(currentSlowSequence)) =>
          BoundaryTimestampMissing(currentSlowSequence)
    /\ (FlushStep /\ BoundaryTimestampMissing(currentSlowSequence)) => RunDropped

\* C17 as amended: a slow run is dropped for lack of timestamps exactly when its
\* first or its last record lacks a timestamp; one missing boundary timestamp
\* is enough, a timestamp on the other boundary does not save the run.
C17_DroppedIffEitherMissing == [][C17_DropForLackOfATimestamp]_vars

\* the whole input was one run, timestamped at its first record and 2 min
\* later, not timestamped at its last record, and the final flush dropped it
C17_Witness ==
    /\ JustScanned
    /\ Len(records) >= 3
    /\ currentSlowSequence = records
    /\ Present(records[1].timestamp)
    /\ Present(records[2].timestamp)
    /\ SelectedBucketContainsMs(Ts(records[2]) - Ts(records[1]))
    /\ ~Present(records[Len(records)].timestamp)
    /\ slowPeriods = <<>>

\* the positions of the merger's argument at which a new interval starts: the
\* first, and every one that starts 60000 ms or more after its predecessor ends
MergeBreaks ==
    {k \in 1..Len(mergeArg) :
        k = 1 \/ mergeArg[k].startTime - mergeArg[k - 1].endTime >= 60000}

C19_SecondMergeChangesNothing ==
    (pc = "merged" /\ pc' = "remerged") => mergeResult' = mergeResult

C19_ApartListUnchanged ==
    (/\ pc = "merged"
     /\ \A k \in 2..Len(mergeArg) :
           mergeArg[k].startTime - mergeArg[k - 1].endTime >= 60000)
        => mergeResult = <<mergeArg>>

\* C19: merging is idempotent, merging the list a merger returned returns that
\* list; and a list whose consecutive intervals are all at least the tolerance
\* apart, an empty list and a list of one interval are returned with the same
\* intervals in the same order.
C19_MergeIdempotent == [][C19_SecondMergeChangesNothing]_vars /\ []C19_ApartListUnchanged

\* three slow periods were combined into one, and merging that list again
\* returned it
C19_Witness ==
    /\ pc = "remerged"
    /\ mergeFn = "mergeNearbySlowPeriods"
    /\ Len(mergeArg) = 3
    /\ Len(mergeResult[1]) = 1
    /\ mergeResult[1][1].startTime = mergeArg[1].startTime
    /\ mergeResult[1][1].endTime = mergeArg[3].endTime

\* C21: with an empty selection findSlowPeriodsWithRanges returns the empty
\* list, for every record list and every threshold, also when the records hold
\* slow runs and recording gaps; no detector has run.
C21_EmptySelectionReturnsEmpty ==
    selectedRanges = <<>> =>
        /\ pc \in {"start", "done"}
        /\ result = <<>>
        /\ slowPeriods = <<>>
        /\ gapPeriods = <<>>

\* the call returned the empty list for records in which, under the default
\* selection, a slow period and a recording gap are found
C21_Witness ==
    /\ pc = "done"
    /\ selectedRanges = <<>>
    /\ result = <<>>
    /\ LET found == findSlowPeriodsWithRanges(records, DEFAULT_SELECTED_RANGES, gapThreshold)
       IN  /\ \E k \in 1..Len(found) : IsGap(found[k])
           /\ \E k \in 1..Len(found) : ~IsGap(found[k])

(***************************************************************************)
(* findSlowPeriodsWithRanges called twice while the threshold select moves *)
(***************************************************************************)
\* the values of the threshold select
GAP_THRESHOLD_OPTIONS == {60000, 120000, 240000, 300000, 600000}

\* longest record list analysed twice
MaxRepeatRecords == 2

\* the argument omitted, or one of the thresholds
ThresholdArguments == {<<>>} \cup {<<t>> : t \in ThresholdValues}

\* the default parameter reading the threshold select when the argument is omitted
ResolveThresholdAmbient(arg) == IF Present(arg) THEN arg[1] ELSE uiGapThreshold

\* gapThreshold: number = DEFAULT_GAP_THRESHOLD_MS
ResolveThreshold(arg) == IF Present(arg) THEN arg[1] ELSE DEFAULT_GAP_THRESHOLD_MS

InitRepeat ==
    /\ records \in SeqsUpTo(ThresholdSamples, MaxRepeatRecords)
    /\ selectedRanges \in Selections
    /\ thresholdArg \in ThresholdArguments
    /\ uiGapThreshold = DEFAULT_GAP_THRESHOLD_MS
    /\ firstResult = <<>>
    /\ gapThreshold = DEFAULT_GAP_THRESHOLD_MS
    /\ pc = "idle"
    /\ i = 1
    /\ currentSlowSequence = <<>>
    /\ slowPeriods = <<>>
    /\ gaps = <<>>
    /\ gapPeriods = <<>>
    /\ result = <<>>
    /\ MatchIdle
    /\ StatsIdle
    /\ BuildIdle
    /\ MergeIdle
    /\ AppIdle

\* a caller enters findSlowPeriodsWithRanges; the value a call before it
\* returned is kept for comparison
CallFindSlowPeriodsWithRanges ==
    /\ pc \in {"idle", "done"}
    /\ pc = "done" => firstResult = <<>>
    /\ firstResult' = IF pc = "done" THEN <<result>> ELSE firstResult
    /\ gapThreshold' = ResolveThreshold(thresholdArg)
    /\ pc' = "start"
    /\ i' = 1
    /\ currentSlowSequence' = <<>>
    /\ slowPeriods' = <<>>
    /\ gaps' = <<>>
    /\ gapPeriods' = <<>>
    /\ result' = <<>>
    /\ UNCHANGED <<records, selectedRanges, uiGapThreshold, thresholdArg>>
    /\ UNCHANGED <<matchVars, statsVars, mergeVars, buildVars, appVars>>

\* onGapThresholdChange={setGapThreshold}, between two calls
SetGapThreshold ==
    /\ pc \in {"idle", "done"}
    /\ \E value \in GAP_THRESHOLD_OPTIONS \ {uiGapThreshold} :
          uiGapThreshold' = value
    /\ UNCHANGED <<thresholdArg, firstResult>>
    /\ UNCHANGED <<analysisVars, matchVars, statsVars, mergeVars, buildVars, appVars>>

NextRepeat ==
    \/ CallFindSlowPeriodsWithRanges
    \/ SetGapThreshold
    \/ Next

SpecRepeat == InitRepeat /\ [][NextRepeat]_vars

(***************************************************************************)
(* Properties of the repeated call                                         *)
(***************************************************************************)
\* the threshold the caller passed, the default when it passed none
PassedThreshold == IF thresholdArg = <<>> THEN 120000 ELSE thresholdArg[1]

\* records j - 1 and j are timestamped and more than the passed threshold apart
ApartByPassed(j) ==
    /\ Present(records[j - 1].timestamp)
    /\ Present(records[j].timestamp)
    /\ Ts(records[j]) - Ts(records[j - 1]) > PassedThreshold

Timestamped(recs) == {j \in 1..Len(recs) : Present(recs[j].timestamp)}

\* session.startTime ?? null
SessionStartTime(sess) == IF Len(sess) > 0 THEN sess[1].startTime ELSE <<>>

\* startTime + totalElapsedTime * 1000 when both are there
SessionEndTime(sess) ==
    IF /\ Len(sess) > 0
       /\ Present(sess[1].startTime)
       /\ Present(sess[1].totalElapsedTime)
    THEN <<sess[1].startTime[1] + sess[1].totalElapsedTime[1] * 1000>>
    ELSE <<>>

\* extractActivityTimes reading the records only for what the session lacks
extractActivityTimesSessionFirst(sess, recs) ==
    LET stamped == Timestamped(recs)
        first   == CHOOSE j \in stamped : \A k \in stamped : j <= k
        last    == CHOOSE j \in stamped : \A k \in stamped : k <= j
    IN  [startTime     |-> IF Present(SessionStartTime(sess)) \/ stamped = {}
                           THEN SessionStartTime(sess)
                           ELSE recs[first].timestamp,
         endTime       |-> IF Present(SessionEndTime(sess)) \/ stamped = {}
                           THEN SessionEndTime(sess)
                           ELSE recs[last].timestamp,
         movingTime    |-> IF Len(sess) > 0 THEN sess[1].totalTimerTime ELSE <<>>,
         totalDistance |-> IF Len(sess) > 0 THEN sess[1].totalDistance ELSE <<>>]

extractActivityTimes(sess, recs) ==
    LET stamped == Timestamped(recs)
        first   == CHOOSE j \in stamped : \A k \in stamped : j <= k
        last    == CHOOSE j \in stamped : \A k \in stamped : k <= j
    IN  [startTime     |-> IF stamped # {} THEN recs[first].timestamp
                           ELSE SessionStartTime(sess),
         endTime       |-> IF stamped # {} THEN recs[last].timestamp
                           ELSE SessionEndTime(sess),
         movingTime    |-> IF Len(sess) > 0 THEN sess[1].totalTimerTime ELSE <<>>,
         totalDistance |-> IF Len(sess) > 0 THEN sess[1].totalDistance ELSE <<>>]

(***************************************************************************)
(* extractActivityTimes called on its own                                  *)
(***************************************************************************)
\* longest record list handed to extractActivityTimes
MaxTimesRecords == 3

Session(startTime, totalElapsedTime, totalTimerTime, totalDistance) ==
    [startTime        |-> startTime,
     totalElapsedTime |-> totalElapsedTime,
     totalTimerTime   |-> totalTimerTime,
     totalDistance    |-> totalDistance]

\* a session starting with the first record or a minute before or after it,
\* lasting 10 minutes, or with either field missing; 240 s on the timer and
\* 1000 m covered, or neither
SessionSamples ==
    {Session(st, el, tm[1], tm[2]) :
        st \in {<<>>, <<-60000>>, <<0>>, <<60000>>},
        el \in {<<>>, <<600>>},
        tm \in {<< <<>>, <<>> >>, << <<240>>, <<1000>> >>}}

\* no session, or one
SessionLists == {<<>>} \cup {<<s>> : s \in SessionSamples}

TimesSamples == {Sample(ts, <<200>>, <<>>) : ts \in Timestamps}

InitTimes ==
    /\ records \in SeqsUpTo(TimesSamples, MaxTimesRecords)
    /\ selectedRanges = <<>>
    /\ gapThreshold = DEFAULT_GAP_THRESHOLD_MS
    /\ AnalysisStart
    /\ sessions \in SessionLists
    /\ activityTimes = <<>>
    /\ analysisResult = <<>>
    /\ MatchIdle
    /\ StatsIdle
    /\ RepeatIdle
    /\ MergeIdle
    /\ AppIdle

CallExtractActivityTimes ==
    /\ activityTimes = <<>>
    /\ activityTimes' = <<extractActivityTimes(sessions, records)>>
    /\ UNCHANGED <<sessions, analysisResult>>
    /\ UNCHANGED <<analysisVars, matchVars, statsVars, mergeVars, repeatVars, appVars>>

NextTimes == CallExtractActivityTimes

SpecTimes == InitTimes /\ [][NextTimes]_vars

(***************************************************************************)
(* Properties of extractActivityTimes                                      *)
(***************************************************************************)
\* C23: extractActivityTimes gives the session precedence: the returned
\* startTime is sessions[0].startTime when that is present, the returned
\* endTime is the session's when the session provides one, and the record
\* timestamps are used only for what the session lacks.
C23_SessionTakesPrecedence ==
    activityTimes # <<>> =>
        /\ Present(SessionStartTime(sessions)) =>
              activityTimes[1].startTime = SessionStartTime(sessions)
        /\ Present(SessionEndTime(sessions)) =>
              activityTimes[1].endTime = SessionEndTime(sessions)

(***************************************************************************)
(* findSlowPeriodsWithRanges over records whose distance field varies      *)
(***************************************************************************)
\* longest record list analysed when the distance field varies
MaxDistanceRecords == 3

\* no distance, 0 m and 500 m
Distances == {<<>>, <<0>>, <<500>>}

\* records at 0 min, 2 min and 4 min 30 s
DistanceSamples ==
    {[Sample(ts, sp, <<>>) EXCEPT !.distance = dist] :
        ts \in {<<0>>, <<120000>>, <<270000>>}, sp \in Speeds, dist \in Distances}

InitDistance ==
    /\ records \in SeqsUpTo(DistanceSamples, MaxDistanceRecords)
    /\ selectedRanges \in {<<>>, <<"2to5">>}
    /\ gapThreshold = DEFAULT_GAP_THRESHOLD_MS
    /\ AnalysisStart
    /\ MatchIdle
    /\ StatsIdle
    /\ BuildIdle
    /\ RepeatIdle
    /\ MergeIdle
    /\ AppIdle

SpecDistance == InitDistance /\ [][Next]_vars

(***************************************************************************)
(* Properties of the distance fields                                       *)
(***************************************************************************)
\* the distance a record carries, or the value given when it carries none
DistanceOr(record, fallback) ==
    IF record.distance = <<>> THEN fallback ELSE record.distance[1]

\* C24: a slow period starts at its first record's distance, 0 if absent, and
\* ends at its last record's distance, its startDistance if absent; a gap has
\* the distances of the two records around it, each 0 if absent; a present
\* distance of 0 is a distance like any other.
C24_DistanceFallback ==
    pc = "done" =>
        \A k \in 1..Len(result) :
            IF IsGap(result[k])
            THEN \E j \in QualifyingPairs(Len(records)) :
                    /\ result[k].startTime = Ts(records[j - 1])
                    /\ result[k].endTime = Ts(records[j])
                    /\ result[k].startDistance = DistanceOr(records[j - 1], 0)
                    /\ result[k].endDistance = DistanceOr(records[j], 0)
                    /\ result[k].gapData.startDistance = DistanceOr(records[j - 1], 0)
                    /\ result[k].gapData.endDistance = DistanceOr(records[j], 0)
            ELSE \E r \in RunsOf(result[k], Len(records)) :
                    /\ result[k].startDistance = DistanceOr(records[r[1]], 0)
                    /\ result[k].endDistance =
                          DistanceOr(records[r[2]], result[k].startDistance)

\* a slow period from records at 500 m and at no distance, followed by a gap
\* from that record to one at a present distance of 0
C24_Witness ==
    /\ pc = "done"
    /\ Len(records) = 3
    /\ records[1].distance = <<500>>
    /\ records[2].distance = <<>>
    /\ records[3].distance = <<0>>
    /\ Len(result) = 2
    /\ ~IsGap(result[1])
    /\ result[1].startDistance = 500
    /\ result[1].endDistance = 500
    /\ IsGap(result[2])
    /\ result[2].startDistance = 0
    /\ result[2].endDistance = 0

(***************************************************************************)
(* analysis: buildAnalysisResult                                           *)
(***************************************************************************)
\* selectedRanges.map(range => RANGE_LABELS[range]).join(', '), the joined
\* text modelled as the sequence of its parts
getSelectedRangeText(ranges) == [k \in 1..Len(ranges) |-> RANGE_LABELS(ranges[k])]

\* startTime && endTime ? Math.max(0, Math.round((endTime - startTime) / 1000)) : null
ElapsedSeconds(startTime, endTime) ==
    IF Present(startTime) /\ Present(endTime)
    THEN LET rounded == MathRound(Frac(endTime[1] - startTime[1], 1000))
         IN  <<IF rounded > 0 THEN rounded ELSE 0>>
    ELSE <<>>

\* buildAnalysisResult detecting under all six buckets whatever is selected
buildAnalysisResultAllBuckets(sess, recs, ranges, threshold) ==
    LET times   == extractActivityTimes(sess, recs)
        periods == findSlowPeriodsWithRanges(recs, DEFAULT_SELECTED_RANGES, threshold)
    IN  [records           |-> recs,
         sessions          |-> sess,
         timestampGaps     |-> findTimestampGaps(recs, threshold),
         slowPeriods       |-> periods,
         activityRoute     |-> convertGpsCoordinates(recs),
         startTime         |-> times.startTime,
         endTime           |-> times.endTime,
         movingTime        |-> times.movingTime,
         totalDistance     |-> times.totalDistance,
         durationSeconds   |-> ElapsedSeconds(times.startTime, times.endTime),
         stats             |-> calculateSlowPeriodStatistics(periods, ranges),
         selectedRangeText |-> IF Len(ranges) > 0 THEN getSelectedRangeText(ranges)
                               ELSE <<"None selected">>]

\* fitData and fileName are returned as they were passed
buildAnalysisResult(sess, recs, ranges, threshold) ==
    LET times   == extractActivityTimes(sess, recs)
        periods == findSlowPeriodsWithRanges(recs, ranges, threshold)
    IN  [records           |-> recs,
         sessions          |-> sess,
         timestampGaps     |-> findTimestampGaps(recs, threshold),
         slowPeriods       |-> periods,
         activityRoute     |-> convertGpsCoordinates(recs),
         startTime         |-> times.startTime,
         endTime           |-> times.endTime,
         movingTime        |-> times.movingTime,
         totalDistance     |-> times.totalDistance,
         durationSeconds   |-> ElapsedSeconds(times.startTime, times.endTime),
         stats             |-> calculateSlowPeriodStatistics(periods, ranges),
         selectedRangeText |-> IF Len(ranges) > 0 THEN getSelectedRangeText(ranges)
                               ELSE <<"None selected">>]

(***************************************************************************)
(* buildAnalysisResult called on its own                                   *)
(***************************************************************************)
\* longest record list of a decoded file
MaxBuildRecords == 3

\* 0 s, 2 min, 2 min 0.5 s and 4 min 1 s after the start, or no timestamp
BuildTimestamps == {<<>>, <<0>>, <<120000>>, <<120500>>, <<241000>>}

BuildSamples == {Sample(ts, sp, <<>>) : ts \in BuildTimestamps, sp \in Speeds}

\* no session, a whole one, one that has only a start time a minute late
BuildSessions ==
    {<<>>,
     <<Session(<<0>>, <<600>>, <<240>>, <<1000>>)>>,
     <<Session(<<60000>>, <<>>, <<>>, <<>>)>>}

\* nothing selected, one bucket, two buckets, one bucket twice
BuildSelections == {<<>>, <<"2to5">>, <<"2to5", "5to10">>, <<"2to5", "2to5">>}

\* no tolerance at all, the default and 5 min
BuildThresholds == {0, DEFAULT_GAP_THRESHOLD_MS, 300000}

InitBuild ==
    /\ records \in SeqsUpTo(BuildSamples, MaxBuildRecords)
    /\ selectedRanges \in BuildSelections
    /\ gapThreshold \in BuildThresholds
    /\ AnalysisStart
    /\ sessions \in BuildSessions
    /\ activityTimes = <<>>
    /\ analysisResult = <<>>
    /\ MatchIdle
    /\ StatsIdle
    /\ RepeatIdle
    /\ MergeIdle
    /\ AppIdle

CallBuildAnalysisResult ==
    /\ analysisResult = <<>>
    /\ analysisResult' =
          <<buildAnalysisResult(sessions, records, selectedRanges, gapThreshold)>>
    /\ UNCHANGED <<sessions, activityTimes>>
    /\ UNCHANGED <<analysisVars, matchVars, statsVars, mergeVars, repeatVars, appVars>>

NextBuild == CallBuildAnalysisResult

SpecBuild == InitBuild /\ [][NextBuild]_vars

(***************************************************************************)
(* Properties of buildAnalysisResult                                       *)
(***************************************************************************)
\* the sum of f over the positions 1..n
RECURSIVE SumOver(_, _)
SumOver(f, n) == IF n = 0 THEN 0 ELSE SumOver(f, n - 1) + f[n]

PairwiseDistinct(seq) ==
    \A a, b \in 1..Len(seq) : a # b => seq[a] # seq[b]

\* C25: for pairwise distinct selected buckets, buildAnalysisResult returns
\* statistics in which the counts of the breakdown add up to slowCount and the
\* breakdown's seconds plus gapDurationSeconds add up to totalDurationSeconds.
C25_BreakdownAddsUp ==
    (analysisResult # <<>> /\ PairwiseDistinct(selectedRanges)) =>
        LET st      == analysisResult[1].stats
            n       == Len(selectedRanges)
            counts  == [k \in 1..n |-> st.rangeBreakdown[k].count]
            seconds == [k \in 1..n |-> st.rangeBreakdown[k].totalDurationSeconds]
        IN  /\ DOMAIN st.rangeBreakdown = 1..n
            /\ SumOver(counts, n) = st.slowCount
            /\ SumOver(seconds, n) + st.gapDurationSeconds = st.totalDurationSeconds

\* two buckets are selected and the file holds a slow period and a gap
C25_Witness ==
    /\ analysisResult # <<>>
    /\ selectedRanges = <<"2to5", "5to10">>
    /\ analysisResult[1].stats.slowCount = 1
    /\ analysisResult[1].stats.gapCount = 1
    /\ analysisResult[1].stats.rangeBreakdown[1].count = 1
    /\ analysisResult[1].stats.gapDurationSeconds > 0
    /\ analysisResult[1].stats.totalDurationSeconds
          > analysisResult[1].stats.gapDurationSeconds

\* the record list is not empty and its timestamps are all present, whole
\* seconds and non-decreasing
WholeSecondsNonDecreasing ==
    /\ Len(records) > 0
    /\ \A j \in 1..Len(records) :
          /\ Present(records[j].timestamp)
          /\ Ts(records[j]) % 1000 = 0
    /\ \A j \in 2..Len(records) : Ts(records[j - 1]) <= Ts(records[j])

MaxRunRecords == 4

\* 0 min, 2 min, 4 min 30 s and 6 min 30 s after the start, or no timestamp
RunTimestamps == {<<>>, <<0>>, <<120000>>, <<270000>>, <<390000>>}

RunSamples == {Sample(ts, sp, <<>>) : ts \in RunTimestamps, sp \in Speeds}

InitRuns ==
    /\ records \in SeqsUpTo(RunSamples, MaxRunRecords)
    /\ selectedRanges \in {<<>>, <<"2to5">>}
    /\ gapThreshold = DEFAULT_GAP_THRESHOLD_MS
    /\ AnalysisStart
    /\ MatchIdle
    /\ StatsIdle
    /\ BuildIdle
    /\ RepeatIdle
    /\ MergeIdle
    /\ AppIdle

SpecRuns == InitRuns /\ [][Next]_vars

(***************************************************************************)
(* Properties of the runs                                                  *)
(***************************************************************************)
\* the timestamps that are present never go back
NonDecreasingTimestamps ==
    \A a, b \in Timestamped(records) : a < b => Ts(records[a]) <= Ts(records[b])

\* the sum of recordCount over the periods
RECURSIVE RecordCountSum(_)
RecordCountSum(periods) ==
    IF periods = <<>> THEN 0
    ELSE periods[1].recordCount + RecordCountSum(Tail(periods))

\* C26: the slow periods findSpeedBasedSlowPeriods has emitted come from
\* index ranges of slow records that follow one another without sharing a
\* record; their recordCounts add up to at most the number of slow records;
\* and when the timestamps never go back, each period ends no later than the
\* next one starts.
C26_DisjointRunsInOrder ==
    LET n == SlowScanned
        m == Len(slowPeriods)
    IN  /\ \E f \in [1..m -> (1..n) \X (1..n)] :
              /\ \A k \in 1..m : f[k] \in RunsOf(slowPeriods[k], n)
              /\ \A k \in 1..(m - 1) : f[k][2] < f[k + 1][1]
        /\ RecordCountSum(slowPeriods)
              <= Cardinality({j \in 1..n : IsSlow(records[j])})
        /\ NonDecreasingTimestamps =>
              \A k \in 1..(m - 1) : slowPeriods[k].endTime <= slowPeriods[k + 1].startTime

\* findSpeedBasedSlowPeriods has returned two periods cut from four slow
\* records by the 2 min 30 s between the second and the third
C26_Witness ==
    /\ JustScanned
    /\ NonDecreasingTimestamps
    /\ Len(records) = 4
    /\ \A j \in 1..4 : IsSlow(records[j])
    /\ Len(slowPeriods) = 2
    /\ slowPeriods[1].recordCount = 2
    /\ slowPeriods[2].recordCount = 2
    /\ slowPeriods[1].endTime < slowPeriods[2].startTime

\* C27: when the timestamps never go back, no slow period and no gap of the
\* returned list overlap in time: the period ends no later than the gap starts
\* or the gap ends no later than the period starts.
C27_SlowPeriodsAndGapsApart ==
    (pc = "done" /\ NonDecreasingTimestamps) =>
        \A p, g \in 1..Len(result) :
            (~IsGap(result[p]) /\ IsGap(result[g])) =>
                \/ result[p].endTime <= result[g].startTime
                \/ result[g].endTime <= result[p].startTime

\* a slow period, the gap that cut the run, and the slow period after it
C27_Witness ==
    /\ pc = "done"
    /\ NonDecreasingTimestamps
    /\ Len(result) = 3
    /\ ~IsGap(result[1])
    /\ IsGap(result[2])
    /\ ~IsGap(result[3])
    /\ result[1].endTime = result[2].startTime
    /\ result[2].endTime = result[3].startTime

(***************************************************************************)
(* App: toggleRangeSelection                                               *)
(***************************************************************************)
\* Number.MAX_SAFE_INTEGER, brought down to the largest integer available here
MAX_SAFE_INTEGER == 2147483647

\* Array.prototype.indexOf, counted from 0, -1 when absent
IndexOf(seq, item) ==
    IF \E k \in 1..Len(seq) : seq[k] = item
    THEN (CHOOSE k \in 1..Len(seq) :
             seq[k] = item /\ \A l \in 1..(k - 1) : seq[l] # item) - 1
    ELSE -1

\* orderA === -1 ? Number.MAX_SAFE_INTEGER : orderA
SafeOrder(range) ==
    LET order == IndexOf(DEFAULT_SELECTED_RANGES, range)
    IN  IF order = -1 THEN MAX_SAFE_INTEGER ELSE order

\* range put into an ordered list behind every entry that does not come after it
InsertByOrder(sorted, range) ==
    LET after == {k \in 1..Len(sorted) : SafeOrder(sorted[k]) - SafeOrder(range) > 0}
        at    == IF after = {} THEN Len(sorted) + 1
                 ELSE CHOOSE k \in after : \A l \in after : k <= l
    IN  SubSeq(sorted, 1, at - 1) \o <<range>> \o SubSeq(sorted, at, Len(sorted))

\* sortRanges leaving the list as it is
sortRangesUnsorted(ranges) == ranges

\* [...ranges].sort((a, b) => safeOrderA - safeOrderB), a stable sort
RECURSIVE sortRanges(_)
sortRanges(ranges) ==
    IF ranges = <<>> THEN <<>>
    ELSE InsertByOrder(sortRanges(SubSeq(ranges, 1, Len(ranges) - 1)),
                       ranges[Len(ranges)])

\* current.includes(range)
Includes(current, range) == \E k \in 1..Len(current) : current[k] = range

\* current.filter(item => item !== range)
Without(current, range) ==
    LET Other(item) == item # range
    IN  SelectSeq(current, Other)

toggleRangeSelection(current, range) ==
    sortRanges(IF Includes(current, range)
               THEN Without(current, range)
               ELSE Append(current, range))

\* the values of the six checkboxes
RANGE_OPTIONS == {DEFAULT_SELECTED_RANGES[k] : k \in 1..Len(DEFAULT_SELECTED_RANGES)}

InitToggle ==
    /\ records = <<>>
    /\ selectedRanges = DEFAULT_SELECTED_RANGES
    /\ gapThreshold = DEFAULT_GAP_THRESHOLD_MS
    /\ AnalysisStart
    /\ MatchIdle
    /\ StatsIdle
    /\ BuildIdle
    /\ RepeatIdle
    /\ MergeIdle
    /\ AppIdle

\* onChange={() => onToggleRange(option.value)}; toggled keeps the last two
\* calls, each with the selection it found
ToggleRangeSelection ==
    /\ \E range \in RANGE_OPTIONS :
          /\ selectedRanges' = toggleRangeSelection(selectedRanges, range)
          /\ toggled' = (IF toggled = <<>> THEN <<>> ELSE <<toggled[Len(toggled)]>>)
                        \o <<[range |-> range, current |-> selectedRanges]>>
    /\ UNCHANGED <<records, gapThreshold, pc, i, currentSlowSequence, slowPeriods,
                   gaps, gapPeriods, result>>
    /\ UNCHANGED <<matchVars, statsVars, mergeVars, repeatVars, buildVars, loadVars>>

NextToggle == ToggleRangeSelection

SpecToggle == InitToggle /\ [][NextToggle]_vars

(***************************************************************************)
(* Properties of the selection                                             *)
(***************************************************************************)
\* the place of a bucket in the canonical order, 0 for anything else
CanonicalPlace(range) ==
    IF \E k \in 1..6 : DEFAULT_SELECTED_RANGES[k] = range
    THEN CHOOSE k \in 1..6 : DEFAULT_SELECTED_RANGES[k] = range
    ELSE 0

\* C29: after any number of toggles from the default selection, selectedRanges
\* holds only bucket identifiers, none twice, in the canonical order; and two
\* toggles of the same bucket in a row give back the selection found by the
\* first of them.
C29_SelectionCanonical ==
    /\ \A k \in 1..Len(selectedRanges) : CanonicalPlace(selectedRanges[k]) >= 1
    /\ \A k \in 1..(Len(selectedRanges) - 1) :
          CanonicalPlace(selectedRanges[k]) < CanonicalPlace(selectedRanges[k + 1])
    /\ (Len(toggled) = 2 /\ toggled[1].range = toggled[2].range) =>
          selectedRanges = toggled[1].current

\* '5to10' was switched off and on again while '2to5' and '30to60' were the
\* other buckets selected
C29_Witness ==
    /\ Len(toggled) = 2
    /\ toggled[1].range = "5to10"
    /\ toggled[2].range = "5to10"
    /\ toggled[1].current = <<"2to5", "5to10", "30to60">>
    /\ toggled[2].current = <<"2to5", "30to60">>
    /\ selectedRanges = <<"2to5", "5to10", "30to60">>

(***************************************************************************)
(* App: handleFileSelection and handleExampleLoad                          *)
(***************************************************************************)
\* most calls of the load handlers in one behaviour
MaxLoads == 2

\* a file name is its stem followed by the characters of its extension
EXAMPLE_FILE_NAME == <<"GreatBritishEscapades2025", ".", "f", "i", "t">>

FileNames ==
    {<<"ride", ".", "f", "i", "t">>,
     <<"TOUR", ".", "F", "I", "T">>,
     <<"notes", ".", "t", "x", "t">>}

LowerCaseOf(part) ==
    CASE part = "TOUR" -> "tour"
      [] part = "F"    -> "f"
      [] part = "I"    -> "i"
      [] part = "T"    -> "t"
      [] OTHER         -> part

\* String.prototype.toLowerCase
ToLowerCase(name) == [k \in 1..Len(name) |-> LowerCaseOf(name[k])]

\* String.prototype.endsWith
EndsWith(name, suffix) ==
    /\ Len(suffix) <= Len(name)
    /\ SubSeq(name, Len(name) - Len(suffix) + 1, Len(name)) = suffix

\* the calls that have not run to their end
InFlight == {k \in 1..Len(loads) : loads[k].stage \in {"fetch", "arrayBuffer", "decode"}}

Load(handler, fileName, stage) ==
    [handler       |-> handler,
     fileName      |-> fileName,
     stage         |-> stage,
     startedDuring |-> InFlight]

InitLoad ==
    /\ records = <<>>
    /\ selectedRanges = DEFAULT_SELECTED_RANGES
    /\ gapThreshold = DEFAULT_GAP_THRESHOLD_MS
    /\ AnalysisStart
    /\ MatchIdle
    /\ StatsIdle
    /\ BuildIdle
    /\ RepeatIdle
    /\ MergeIdle
    /\ AppIdle

\* handleFileSelection up to its first await
HandleFileSelection ==
    /\ Len(loads) < MaxLoads
    /\ \E file \in FileNames :
          IF ~EndsWith(ToLowerCase(file), <<".", "f", "i", "t">>)
          THEN /\ loads' = Append(loads, Load("handleFileSelection", file, "alert"))
               /\ UNCHANGED <<parsedFile, status, fileError>>
          ELSE /\ status' = "loading"
               /\ fileError' = <<>>
               /\ loads' = Append(loads, Load("handleFileSelection", file, "decode"))
               /\ UNCHANGED parsedFile
    /\ UNCHANGED <<analysisVars, matchVars, statsVars, mergeVars, repeatVars,
                   buildVars, toggled>>

\* handleExampleLoad up to its first await
HandleExampleLoad ==
    /\ Len(loads) < MaxLoads
    /\ status' = "loading"
    /\ fileError' = <<>>
    /\ loads' = Append(loads, Load("handleExampleLoad", EXAMPLE_FILE_NAME, "fetch"))
    /\ UNCHANGED parsedFile
    /\ UNCHANGED <<analysisVars, matchVars, statsVars, mergeVars, repeatVars,
                   buildVars, toggled>>

\* catch: setFileError(message); finally: setStatus('idle')
Caught(k, message) ==
    /\ fileError' = <<message>>
    /\ status' = "idle"
    /\ loads' = [loads EXCEPT ![k].stage = "failed"]
    /\ UNCHANGED parsedFile

\* await fetch(...) settles: a response that is ok, one that is not, or an error
FetchSettles ==
    /\ \E k \in 1..Len(loads) :
          /\ loads[k].stage = "fetch"
          /\ \/ /\ loads' = [loads EXCEPT ![k].stage = "arrayBuffer"]
                /\ UNCHANGED <<parsedFile, status, fileError>>
             \/ Caught(k, "Failed to load example file: status")
             \/ Caught(k, "Unable to load example file")
    /\ UNCHANGED <<analysisVars, matchVars, statsVars, mergeVars, repeatVars,
                   buildVars, toggled>>

\* await response.arrayBuffer() settles
ArrayBufferSettles ==
    /\ \E k \in 1..Len(loads) :
          /\ loads[k].stage = "arrayBuffer"
          /\ \/ /\ loads' = [loads EXCEPT ![k].stage = "decode"]
                /\ UNCHANGED <<parsedFile, status, fileError>>
             \/ Caught(k, "Unable to load example file")
    /\ UNCHANGED <<analysisVars, matchVars, statsVars, mergeVars, repeatVars,
                   buildVars, toggled>>

\* await decodeFitFile(file) settles: setParsedFile and setStatus('idle'), or
\* the catch block
DecodeSettles ==
    /\ \E k \in 1..Len(loads) :
          /\ loads[k].stage = "decode"
          /\ \/ /\ parsedFile' = <<loads[k].fileName>>
                /\ status' = "idle"
                /\ loads' = [loads EXCEPT ![k].stage = "done"]
                /\ UNCHANGED fileError
             \/ Caught(k, IF loads[k].handler = "handleFileSelection"
                          THEN "Unknown error parsing FIT file"
                          ELSE "Unable to load example file")
    /\ UNCHANGED <<analysisVars, matchVars, statsVars, mergeVars, repeatVars,
                   buildVars, toggled>>

NextLoad ==
    \/ HandleFileSelection
    \/ HandleExampleLoad
    \/ FetchSettles
    \/ ArrayBufferSettles
    \/ DecodeSettles

SpecLoad == InitLoad /\ [][NextLoad]_vars

(***************************************************************************)
(* Properties of the loads                                                 *)
(***************************************************************************)
\* the calls that went past the check of the file name
Accepted == {k \in 1..Len(loads) : loads[k].stage # "alert"}

\* C30: when a load was started while an earlier one was still under way and
\* both have decoded their file, parsedFile holds the file of the load started
\* last, whichever decode completed first.
C30_LastStartedLoadWins ==
    \A earlier, last \in Accepted :
        (/\ InFlight = {}
         /\ \A k \in Accepted : k <= last
         /\ earlier \in loads[last].startedDuring
         /\ loads[earlier].stage = "done"
         /\ loads[last].stage = "done")
            => parsedFile = <<loads[last].fileName>>

====
